---- MODULE Spec2Model ----
(***************************************************************************)
(* A model of rdf-mapper's template engine (src/src/rdf_mapper):           *)
(*   lib/template_state.py      TemplateState, ReconciliationRecord        *)
(*   lib/template_support.py    pattern/uri/value expansion, resource and  *)
(*                              property processing, autoCV, reconcile     *)
(*   lib/template_processor.py  TemplateProcessor (rows, finalize, update) *)
(*   lib/mapper_spec.py         MapperSpec, ResourceSpec, PropSpec         *)
(*                                                                         *)
(* Python values are tagged records [t |-> tag, v |-> payload]; Python     *)
(* strings are TLA+ strings, scanned character by character the way the    *)
(* regular expressions of template_support.py scan them.  The mutable      *)
(* objects that Python shares by reference (context scopes, the backlinks  *)
(* dict, the preserved-graph set, the reconcile dict, the dataset) live in *)
(* a heap, the "world" w; a TemplateState holds indexes into that heap.    *)
(* Every function of the engine is an operator from a world to a result    *)
(* [w |-> world after, exc |-> "" or the exception class raised,           *)
(*  val |-> value returned].                                               *)
(***************************************************************************)
EXTENDS Integers, Sequences, FiniteSets, TLC

(***************************************************************************)
(* 1. Python strings                                                       *)
(***************************************************************************)
Ch(s, i) == SubSeq(s, i, i)

Lower == {"a","b","c","d","e","f","g","h","i","j","k","l","m",
          "n","o","p","q","r","s","t","u","v","w","x","y","z"}

Upper == {"A","B","C","D","E","F","G","H","I","J","K","L","M",
          "N","O","P","Q","R","S","T","U","V","W","X","Y","Z"}

Digit == {"0","1","2","3","4","5","6","7","8","9"}

\* \w of Python's re, on the ASCII subset
WordChar == Lower \cup Upper \cup Digit \cup {"_"}

\* \s of Python's re, on the characters a template can hold
Space == {" ", "\t", "\n"}

StartsWith(s, p) == Len(s) >= Len(p) /\ SubSeq(s, 1, Len(p)) = p

EndsWith(s, p) == Len(s) >= Len(p) /\ SubSeq(s, Len(s) - Len(p) + 1, Len(s)) = p

\* s[i:] and s[:j] of Python, 1-based and inclusive here
From(s, i) == SubSeq(s, i, Len(s))

\* the first position >= i where the one-character string c occurs, 0 if none
IndexOf(s, c, i) ==
    LET at == {j \in i..Len(s) : Ch(s, j) = c}
    IN  IF at = {} THEN 0 ELSE CHOOSE j \in at : \A k \in at : j <= k

\* the first position >= i holding a character outside cs, Len(s)+1 if none
SkipIn(s, cs, i) ==
    LET at == {j \in i..Len(s) : Ch(s, j) \notin cs}
    IN  IF i > Len(s) THEN i
        ELSE IF at = {} THEN Len(s) + 1
        ELSE CHOOSE j \in at : \A k \in at : j <= k

\* the last position <= i holding a character outside cs, 0 if none
SkipBack(s, cs, i) ==
    LET at == {j \in 1..i : Ch(s, j) \notin cs}
    IN  IF at = {} THEN 0 ELSE CHOOSE j \in at : \A k \in at : j >= k

AllIn(s, cs) == SkipIn(s, cs, 1) > Len(s)

\* str.strip()
strip(s) == SubSeq(s, SkipIn(s, Space, 1), SkipBack(s, Space, Len(s)))

\* re.sub of _POOR_URI_CHARS = [^\w\-]+ by "_" on positions lo..hi of s: each
\* maximal run of poor characters becomes one underscore, written for the first
\* character of the run; the two halves of the range are rewritten apart
RECURSIVE SubPoor(_, _, _)
SubPoor(s, lo, hi) ==
    IF lo > hi THEN ""
    ELSE IF lo = hi
    THEN IF Ch(s, lo) \in WordChar \cup {"-"} THEN Ch(s, lo)
         ELSE IF lo > 1 /\ Ch(s, lo - 1) \notin WordChar \cup {"-"} THEN "" ELSE "_"
    ELSE SubPoor(s, lo, (lo + hi) \div 2) \o SubPoor(s, (lo + hi) \div 2 + 1, hi)

normalize(s) ==
    LET norm  == SubPoor(strip(s), 1, Len(strip(s)))
        norm1 == IF EndsWith(norm, "_") THEN SubSeq(norm, 1, Len(norm) - 1) ELSE norm
    IN  IF StartsWith(norm1, "_") THEN From(norm1, 2) ELSE norm1

\* _URI_PATTERN.fullmatch: (https?|file|urn)://.*
URI_PATTERN(s) ==
    \E scheme \in {"http", "https", "file", "urn"} : StartsWith(s, scheme \o "://")

\* _CURI_PATTERN.fullmatch: ([_A-Za-z][\w\-\.]*):([\w\-\.]+), as <<prefix, local>>
\* or <<>> when s is no CURIE.  The prefix cannot hold a colon, so the split
\* is at the first colon.
CURI_PATTERN(s) ==
    LET c == IndexOf(s, ":", 1)
    IN  IF  /\ c > 1
            /\ c < Len(s)
            /\ Ch(s, 1) \in Lower \cup Upper \cup {"_"}
            /\ AllIn(SubSeq(s, 1, c - 1), WordChar \cup {"-", "."})
            /\ AllIn(From(s, c + 1), WordChar \cup {"-", "."})
        THEN <<SubSeq(s, 1, c - 1), From(s, c + 1)>>
        ELSE <<>>

\* re.split of a separator character with the white space around it
\* (_PIPEPATTERN \s*\|\s* and _COMMA_SPLIT \s*,\s*)
RECURSIVE SplitOn(_, _)
SplitOn(s, sep) ==
    LET c == IndexOf(s, sep, 1)
    IN  IF c = 0 THEN <<s>>
        ELSE <<SubSeq(s, 1, SkipBack(s, Space, c - 1))>>
             \o SplitOn(From(s, SkipIn(s, Space, c + 1)), sep)

(***************************************************************************)
(* 2. Python values                                                        *)
(***************************************************************************)
Str(s) == [t |-> "str", v |-> s]

NoneV == [t |-> "None", v |-> ""]

TrueV == [t |-> "bool", v |-> "True"]

IntV(n) == [t |-> "int", v |-> n]

ListV(seq) == [t |-> "list", v |-> seq]

\* a dict the program holds is a reference to an object of the heap (its index
\* in scopes); reference 0 is an empty dict, which nothing ever writes to
DictV(ref) == [t |-> "dict", v |-> ref]

\* a map written in the specification document
MapV(d) == [t |-> "map", v |-> d]

\* rdflib terms
URIRef(s) == [t |-> "uri", v |-> s]

BNode(n) == [t |-> "bnode", v |-> n]

Literal(lex, dt, lang) == [t |-> "lit", v |-> <<lex, dt, lang>>]

\* a bound method object, such as record.id when it is not called
BoundMethod(name) == [t |-> "method", v |-> name]

IsTerm(x) == x.t \in {"uri", "bnode", "lit"}

\* Python truth value
Truthy(x) ==
    CASE x.t = "None" -> FALSE
      [] x.t \in {"str", "uri"} -> x.v # ""
      [] x.t = "int" -> x.v # 0
      [] x.t = "list" -> Len(x.v) > 0
      [] x.t = "dict" -> x.v # 0
      [] x.t = "map" -> DOMAIN x.v # {}
      [] OTHER -> TRUE

\* str(x), on the values a template can be handed
str(x) ==
    CASE x.t \in {"str", "uri"} -> x.v
      [] x.t = "None" -> "None"
      [] x.t = "int" -> ToString(x.v)
      [] x.t = "lit" -> x.v[1]
      [] x.t = "bnode" -> "N" \o ToString(x.v)
      [] x.t = "bool" -> x.v
      [] x.t = "method" -> "<bound method " \o x.v \o ">"
      [] OTHER -> "<" \o x.t \o ">"

\* dict
EmptyDict == [k \in {} |-> NoneV]

Put(d, k, x) == [j \in DOMAIN d \cup {k} |-> IF j = k THEN x ELSE d[j]]

\* dict.get(k), None when absent
Get(d, k) == IF k \in DOMAIN d THEN d[k] ELSE NoneV

\* other | self: the right operand wins
Union(other, self) ==
    [k \in DOMAIN other \cup DOMAIN self |-> IF k \in DOMAIN self THEN self[k] ELSE other[k]]

(***************************************************************************)
(* 3. The heap and TemplateState (template_state.py)                       *)
(***************************************************************************)
DEFAULT_GRAPH == "urn:x-rdflib:default"

\* rdflib Dataset(): the graphs that exist and the quads <<graph, s, p, o>>
EmptyDataset == [graphs |-> {}, quads |-> {}]

\* result of a call
Ret(w, x) == [w |-> w, exc |-> "", val |-> x]

Raise(w, cls) == [w |-> w, exc |-> cls, val |-> NoneV]

\* the value of a statement sequence `x = e ; body`, written as the function
\* [x \in {e} |-> body]: e is evaluated once, before body, as Python does
Bind(f) == f[CHOOSE x \in DOMAIN f : TRUE]

Event(w, kind, a, b, x) ==
    [w EXCEPT !.ev = Append(@, [e |-> kind, a |-> a, b |-> b, x |-> x])]

\* ChainMap.__contains__
InContext(w, context, prop) == \E i \in 1..Len(context) : prop \in DOMAIN w.scopes[context[i]]

\* ChainMap.get: the first scope, innermost first, that holds the key
ChainGet(w, context, prop, i) ==
    LET at == {j \in i..Len(context) : prop \in DOMAIN w.scopes[context[j]]}
    IN  IF at = {} THEN NoneV
        ELSE w.scopes[context[CHOOSE j \in at : \A k \in at : j <= k]][prop]

\* ChainMap.__setitem__: always the first map
ChainSet(w, context, prop, x) ==
    [w EXCEPT !.scopes[context[1]] = Put(@, prop, x)]

\* a dict display {...}: a new object of the heap
new_dict(w, m) == Ret([w EXCEPT !.scopes = Append(@, m)], Len(w.scopes) + 1)

\* ChainMap.new_child(m): the object m itself in front of the same maps
new_child(context, m) == <<m>> \o context

ensure_graph(w, st) ==
    IF InContext(w, st.context, "$graph") THEN w
    ELSE ChainSet(w, st.context, "$graph", Str(DEFAULT_GRAPH))

\* TemplateState.__init__: a new backlinks dict, the other objects as handed in.
\* The abort_on_error keyword that template_processor.py:28 passes is accepted
\* and not kept.
TemplateState(w, context, dataset, preserved_graphs, reconcile_stack) ==
    LET st == [context |-> context, dataset |-> dataset,
               backlinks |-> Len(w.backlinks) + 1,
               preserved_graphs |-> preserved_graphs,
               reconcile_stack |-> reconcile_stack]
        w1 == [w EXCEPT !.backlinks = Append(@, EmptyDict)]
    IN  Ret(ensure_graph(w1, st), st)

add_to_context(w, st, prop, x) == ChainSet(w, st.context, prop, x)

get(w, st, prop) == ChainGet(w, st.context, prop, 1)

\* TemplateState.child: subcontext is the dict object the caller hands in
child(w, st, subcontext) ==
    LET r == TemplateState(w, new_child(st.context, subcontext), st.dataset,
                           st.preserved_graphs, st.reconcile_stack)
    IN  Ret(r.w, [r.val EXCEPT !.backlinks = st.backlinks])

\* state.child({...}) on a dict display
child_of(w, st, m) ==
    LET d == new_dict(w, m)
    IN  child(d.w, st, d.val)

\* ReconciliationRecord
ReconciliationRecord(key, keytype, id) ==
    [key |-> key, keytype |-> keytype, id |-> id]

lookup_key(key, keytype) == key \o "-" \o str(keytype)

record_reconcile_request(w, st, record) ==
    [w EXCEPT !.reconcile[st.reconcile_stack] =
        Put(@, lookup_key(record.key, record.keytype), record)]

\* "record.id if record else None": id is a method of ReconciliationRecord and
\* is not called here, so what comes back for a cached record is the bound
\* method, not the identifier.
reconciled_ref(w, st, key, keytype) ==
    IF lookup_key(key, keytype) \in DOMAIN w.reconcile[st.reconcile_stack]
    THEN BoundMethod("ReconciliationRecord.id")
    ELSE NoneV

record_auto_cv(w, st, name, label, id) ==
    [w EXCEPT !.backlinks[st.backlinks] = Put(@, name \o "/" \o label, id)]

\* record_auto_emit that reports and does not record
record_auto_emitMutant(w, st, type, label) ==
    Ret(w, (type \o "#" \o label) \in DOMAIN w.backlinks[st.backlinks])

\* returns TRUE if already known
record_auto_emit(w, st, type, label) ==
    LET key == type \o "#" \o label
    IN  IF key \in DOMAIN w.backlinks[st.backlinks]
        THEN Ret(w, TRUE)
        ELSE Ret([w EXCEPT !.backlinks[st.backlinks] = Put(@, key, TrueV)], FALSE)

get_auto_entry(w, st, name, label) ==
    Get(w.backlinks[st.backlinks], name \o "/" \o label)

\* switch_to_graph in which a selection without the flag ends the preservation
switch_to_graphMutant(w, st, graph, preserve) ==
    LET w1 == IF preserve
              THEN [w EXCEPT !.preserved[st.preserved_graphs] = @ \cup {graph}]
              ELSE [w EXCEPT !.preserved[st.preserved_graphs] = @ \ {graph}]
    IN  child_of(w1, st, "$graph" :> Str(graph))

switch_to_graph(w, st, graph, preserve) ==
    LET w1 == IF preserve
              THEN [w EXCEPT !.preserved[st.preserved_graphs] = @ \cup {graph}]
              ELSE w
    IN  child_of(w1, st, "$graph" :> Str(graph))

\* Dataset.graph(id) makes the graph exist; the graph is named by the string
current_graph(w, st) ==
    LET g == str(get(w, st, "$graph"))
    IN  Ret([w EXCEPT !.datasets[st.dataset].graphs = @ \cup {g}], g)

\* Graph.add asserts that subject, predicate and object are rdflib terms
add_to_graph(w, st, triple) ==
    LET g == current_graph(w, st)
    IN  IF \E i \in 1..3 : ~IsTerm(triple[i])
        THEN Raise(g.w, "AssertionError")
        ELSE Ret([g.w EXCEPT !.datasets[st.dataset].quads =
                     @ \cup {<<g.val, triple[1], triple[2], triple[3]>>}], NoneV)

(***************************************************************************)
(* 4. The mapping specification (mapper_spec.py)                           *)
(***************************************************************************)
builtins == "$baseURI" :> Str("https://epimorphics.com/datasets/")

builtinNamespaces ==
    [ns \in {"rdf", "rdfs", "owl", "skos", "dct", "org"} |->
        CASE ns = "rdf"  -> "http://www.w3.org/1999/02/22-rdf-syntax-ns#"
          [] ns = "rdfs" -> "http://www.w3.org/2000/01/rdf-schema#"
          [] ns = "owl"  -> "http://www.w3.org/2002/07/owl#"
          [] ns = "skos" -> "http://www.w3.org/2004/02/skos/core#"
          [] ns = "dct"  -> "http://purl.org/dc/terms/"
          [] ns = "org"  -> "http://www.w3.org/ns/org#"]

RDF_type == URIRef("http://www.w3.org/1999/02/22-rdf-syntax-ns#type")

SKOS_Concept == "http://www.w3.org/2004/02/skos/core#Concept"

\* ResourceSpec.__init__ on a map with "name" and "properties".  requires is
\* read at mapper_spec.py:203; unless and preserved_graph are read by
\* template_support.py:245,269 and are fields of the resource template too.
ResourceSpec(name, graph, preserved_graph, properties, requires, unless) ==
    [name |-> name, graph |-> graph, preserved_graph |-> preserved_graph,
     properties |-> properties, requires |-> requires, unless |-> unless,
     comment |-> NoneV]

\* a template with no filter and no graph
Resource(name, properties) ==
    ResourceSpec(Str(name), NoneV, FALSE, properties, NoneV, NoneV)

\* ResourceSpec.find_prop_defn: the first pair with that key, else None
find_prop_defn(rs, name) ==
    IF \E i \in 1..Len(rs.properties) : rs.properties[i][1] = name
    THEN rs.properties[CHOOSE i \in 1..Len(rs.properties) :
                          /\ rs.properties[i][1] = name
                          /\ \A j \in 1..(i - 1) : rs.properties[j][1] # name][2]
    ELSE NoneV

\* PropSpec.__init__
PropSpec(name, prop, type, cls, required, reconciliationType) ==
    [name |-> name, prop |-> prop, type |-> type, cls |-> cls,
     required |-> required, reconciliationType |-> reconciliationType,
     reconciliationAPI |-> NoneV, comment |-> NoneV]

\* _as_arg
as_arg(x) == IF x.t = "str" THEN "'" \o x.v \o "'" ELSE str(x)

\* PropSpec.propValueTemplate, with no reconciliationFilters: str([]) is "[]"
propValueTemplate(ps, pattern) ==
    IF Truthy(ps.type) /\ StartsWith(pattern, "{") /\ EndsWith(pattern, "}")
    THEN <<ps.prop, "{" \o SubSeq(pattern, 2, Len(pattern) - 1) \o " | as" \o ps.type.v \o "}">>
    ELSE IF Truthy(ps.reconciliationType)
    THEN <<ps.prop, "{" \o SubSeq(pattern, 2, Len(pattern) - 1) \o " | reconcile("
                    \o as_arg(Str(ps.name)) \o "," \o as_arg(ps.reconciliationType) \o ","
                    \o as_arg(ps.reconciliationAPI) \o ",[])}">>
    ELSE <<ps.prop, pattern>>

\* MapperSpec.__init__ and _init_defaults for a specification without imports:
\* $datasetBase is written into globals when the context has none
MapperSpec(globals, namespaces, one_offs, resources, embedded, properties, mappings, auto_declare) ==
    LET ctx == Union(builtins, globals)
    IN  [globals |-> IF Truthy(Get(ctx, "$datasetBase")) THEN globals
                     ELSE Put(globals, "$datasetBase",
                              Str(str(Get(ctx, "$baseURI")) \o str(Get(ctx, "$datasetID")))),
         namespaces |-> Union(builtinNamespaces, namespaces),
         one_offs |-> one_offs,
         resources |-> resources,
         embedded_resources |-> embedded,
         propertySpecs |-> properties,
         mappings |-> mappings,
         auto_declare |-> auto_declare]

\* a merge in which the argument takes precedence over the receiver
mergeMutant(self, other) ==
    MapperSpec(Union(self.globals, other.globals),
               Union(self.namespaces, other.namespaces),
               self.one_offs \o other.one_offs,
               <<>>,
               Union(self.embedded_resources, other.embedded_resources),
               Union(self.propertySpecs, other.propertySpecs),
               Union(self.mappings, other.mappings),
               TRUE)

\* MapperSpec.merge: a new specification built from other | self in every
\* keyed category and self.one_offs + other.one_offs; the map handed to the
\* constructor has no "resources" and auto_declare is left at its default
merge(self, other) ==
    MapperSpec(Union(other.globals, self.globals),
               Union(other.namespaces, self.namespaces),
               self.one_offs \o other.one_offs,
               <<>>,
               Union(other.embedded_resources, self.embedded_resources),
               Union(other.propertySpecs, self.propertySpecs),
               Union(other.mappings, self.mappings),
               TRUE)

\* MapperSpec({})
EmptyMapperSpec == MapperSpec(EmptyDict, EmptyDict, <<>>, <<>>, EmptyDict, EmptyDict, EmptyDict, TRUE)

\* the accumulator of _load_imports after the modules from position i on:
\* acc_module = acc_module.merge(module)
RECURSIVE merge_modules(_, _, _)
merge_modules(acc_module, modules, i) ==
    IF i > Len(modules) THEN acc_module
    ELSE merge_modules(merge(acc_module, modules[i]), modules, i + 1)

\* MapperSpec.__init__ on a map with "imports", every import being a yaml
\* module that loaded: self is the specification as built before
\* _load_imports runs, modules the imported specifications in the order given.
\* The result is the specification with the five fields _load_imports
\* assigns, and context, the ChainMap made in __init__ over the globals dict
\* of that moment.
load_imports(self, modules) ==
    IF modules = <<>> THEN [spec |-> self, context |-> <<self.globals, builtins>>]
    ELSE LET merged == merge(merge_modules(EmptyMapperSpec, modules, 1), self)
         IN  [spec |-> [self EXCEPT !.globals = merged.globals,
                                    !.namespaces = merged.namespaces,
                                    !.propertySpecs = merged.propertySpecs,
                                    !.one_offs = merged.one_offs,
                                    !.mappings = merged.mappings],
              context |-> <<self.globals, builtins>>]

(***************************************************************************)
(* 5. The expansion engine (template_support.py)                           *)
(***************************************************************************)
\* a call that enters the engine again from inside it (a transform that creates
\* a resource, a template nested in a property, an item of a list) goes through
\* Call, which is defined after the operators of the engine
RECURSIVE Call(_, _)
RECURSIVE expand_fragments(_, _, _, _, _)
RECURSIVE valueof_var(_, _, _)
RECURSIVE apply_each(_, _, _, _, _, _)
RECURSIVE apply_chain(_, _, _, _)
RECURSIVE list_to_rdf(_, _, _, _, _)
RECURSIVE record_implicit_prop(_, _, _, _, _)
RECURSIVE process_properties(_, _, _, _, _)
RECURSIVE process_template_items(_, _, _, _, _, _)
RECURSIVE map_to(_, _, _, _)
RECURSIVE map_by(_, _, _, _)
RECURSIVE reconcile(_, _, _, _)
RECURSIVE autoCV(_, _, _, _)

\* _VARPATTERN.fullmatch: {([^}]*)}
VARPATTERN_fullmatch(template) ==
    StartsWith(template, "{") /\ IndexOf(template, "}", 2) = Len(template)

pattern_expand(w, st, template) ==
    IF VARPATTERN_fullmatch(template)
    THEN valueof_var(w, st, SubSeq(template, 2, Len(template) - 1))
    ELSE expand_fragments(w, st, template, 1, "")

\* the finditer loop of pattern_expand, from position last_match + 1
expand_fragments(w, st, template, pos, fragments) ==
    LET open  == IndexOf(template, "{", pos)
        close == IF open = 0 THEN 0 ELSE IndexOf(template, "}", open + 1)
    IN  IF close = 0
        THEN Ret(w, Str(fragments \o From(template, pos)))
        ELSE Bind([r \in {valueof_var(w, st, SubSeq(template, open + 1, close - 1))} |->
             IF r.exc # "" THEN r
             ELSE expand_fragments(r.w, st, template, close + 1,
                    fragments \o SubSeq(template, pos, open - 1) \o
                    (IF Truthy(r.val) THEN str(r.val)
                     ELSE SubSeq(template, open, close)))])

\* valueof_var that hands back a missing value
valueof_varMutant(w, st, var) ==
    LET parts == SplitOn(var, "|")
        val0  == get(w, st, strip(parts[1]))
        val   == IF val0.t = "str" THEN Str(strip(val0.v)) ELSE val0
    IN  apply_chain(w, st, Tail(parts), val)

valueof_var(w, st, var) ==
    LET parts == SplitOn(var, "|")
        val0  == get(w, st, strip(parts[1]))
        val   == IF val0.t = "str" THEN Str(strip(val0.v)) ELSE val0
    IN  Bind([r \in {apply_chain(w, st, Tail(parts), val)} |->
        IF r.exc # "" THEN r
        ELSE IF r.val = NoneV \/ r.val = Str("") THEN Raise(r.w, "ValueError")
        ELSE r])

\* the functions of the module's globals that the model implements
GlobalFns == {"asInt", "trim", "splitComma", "hash", "autoCV", "reconcile",
              "map_to", "map_by"}

\* find_fn: a known name, or text that reads as a call name(args) and is
\* turned into a lambda without looking the name up.  found is FALSE when
\* neither (find_fn returns None).
find_fn(call) ==
    LET n == SkipIn(call, WordChar, 1) - 1
        o == SkipIn(call, Space, n + 1)
    IN  IF call \in GlobalFns
        THEN [found |-> TRUE, fnname |-> call, bare |-> TRUE, args |-> <<>>]
        ELSE IF n >= 1 /\ o <= Len(call) /\ Ch(call, o) = "(" /\ EndsWith(call, ")")
        THEN LET args == strip(SubSeq(call, o + 1, Len(call) - 1))
             IN  [found |-> TRUE, fnname |-> SubSeq(call, 1, n), bare |-> FALSE,
                  args |-> IF Len(args) > 0 THEN SplitOn(args, ",") ELSE <<>>]
        ELSE [found |-> FALSE, fnname |-> "", bare |-> TRUE, args |-> <<>>]

\* the loop over the chain in valueof_var
apply_chain(w, st, chain, val) ==
    IF chain = <<>> THEN Ret(w, val)
    ELSE LET fn == find_fn(chain[1])
             r  == IF val.t = "list"
                   THEN apply_each(w, st, fn, val.v, 1, <<>>)
                   ELSE Call("call_fn", <<w, st, fn, val>>)
         IN  IF ~fn.found THEN Raise(w, "ValueError")
             ELSE IF r.exc # "" THEN r
             ELSE apply_chain(r.w, st, Tail(chain), r.val)

\* fn applied to each element, each under state.child({"$listIndex": i})
apply_each(w, st, fn, vals, i, result) ==
    IF i > Len(vals) THEN Ret(w, ListV(result))
    ELSE LET c == child_of(w, st, "$listIndex" :> IntV(i - 1))
             r == Call("call_fn", <<c.w, c.val, fn, vals[i]>>)
         IN  IF r.exc # "" THEN r
             ELSE apply_each(r.w, st, fn, vals, i + 1, Append(result, r.val))

\* the Python value of an argument written without quotes, when the context has
\* no truthy value under that name: a name Python does not know is a NameError
PyEval(arg) ==
    CASE arg = "None" -> NoneV
      [] arg = "[]" -> ListV(<<>>)
      [] arg = "True" -> TrueV
      [] OTHER -> [t |-> "NameError", v |-> arg]

Quoted(arg) ==
    \/ StartsWith(arg, "'") /\ EndsWith(arg, "'") /\ Len(arg) >= 2
    \/ StartsWith(arg, "\"") /\ EndsWith(arg, "\"") /\ Len(arg) >= 2

\* the bindings find_fn writes into the lambda: a quoted token is a literal,
\* any other is state.get(token) or the token read as Python
Binding(w, st, arg) ==
    IF Quoted(arg) THEN Str(SubSeq(arg, 2, Len(arg) - 1))
    ELSE IF Truthy(get(w, st, arg)) THEN get(w, st, arg)
    ELSE PyEval(arg)

\* positional argument i of a call, None when it is not given
Arg(b, i) == IF i <= Len(b) THEN b[i] ELSE NoneV

\* sha1 and its base-32 text: a function of the bytes digested and of nothing
\* else, written with letters, digits and "=" only
RECURSIVE b32hexencode(_)
b32hexencode(s) ==
    IF Len(s) = 0 THEN ""
    ELSE IF Len(s) = 1
    THEN IF s \in Lower \cup Upper \cup Digit THEN s ELSE "="
    ELSE b32hexencode(SubSeq(s, 1, Len(s) \div 2))
         \o b32hexencode(From(s, Len(s) \div 2 + 1))

Digest(bytes) == "SHA1" \o b32hexencode(bytes)

RECURSIVE Concat(_)
Concat(strs) == IF strs = <<>> THEN "" ELSE strs[1] \o Concat(Tail(strs))

\* fn(value, state, *bindings)
call_fn(w, st, fn, val) ==
    LET n == Len(fn.args)
        b == [i \in 1..n |-> Binding(w, st, fn.args[i])]
        unknown == fn.fnname \notin GlobalFns \/ \E i \in 1..n : b[i].t = "NameError"
    IN  CASE unknown -> Raise(w, "NameError")
          [] ~unknown /\ fn.fnname = "asInt" ->
                IF n > 0 THEN Raise(w, "TypeError")
                ELSE IF ~Truthy(val) THEN Ret(w, NoneV)
                ELSE IF val.t = "int"
                     THEN Ret(w, Literal(ToString(val.v), "xsd:integer", ""))
                ELSE IF val.t = "str" /\ AllIn(strip(val.v), Digit)
                     THEN Ret(w, Literal(strip(val.v), "xsd:integer", ""))
                ELSE IF val.t = "str" THEN Raise(w, "ValueError")
                ELSE Raise(w, "TypeError")
          [] ~unknown /\ fn.fnname = "trim" ->
                IF n > 0 THEN Raise(w, "TypeError")
                ELSE IF ~Truthy(val) THEN Ret(w, NoneV)
                ELSE IF val.t = "str" THEN Ret(w, Str(strip(val.v)))
                ELSE Raise(w, "AttributeError")
          [] ~unknown /\ fn.fnname = "splitComma" ->
                IF n > 0 THEN Raise(w, "TypeError")
                ELSE IF ~Truthy(val) THEN Ret(w, ListV(<<>>))
                ELSE IF val.t = "str"
                     THEN Ret(w, ListV([i \in 1..Len(SplitOn(val.v, ",")) |->
                                           Str(SplitOn(val.v, ",")[i])]))
                ELSE Raise(w, "TypeError")
          [] ~unknown /\ fn.fnname = "hash" ->
                IF Truthy(val) /\ val.t # "str" THEN Raise(w, "TypeError")
                ELSE Ret(w, Str(Digest((IF Truthy(val) THEN val.v ELSE "")
                                       \o Concat([i \in 1..n |-> str(b[i])]))))
          [] ~unknown /\ fn.fnname = "autoCV" ->
                IF n < 1 \/ n > 2 THEN Raise(w, "TypeError")
                ELSE autoCV(w, st, val, b)
          [] ~unknown /\ fn.fnname = "reconcile" ->
                IF n < 1 \/ n > 5 THEN Raise(w, "TypeError")
                ELSE reconcile(w, st, val, b)
          [] ~unknown /\ fn.fnname = "map_to" ->
                IF n # 1 THEN Raise(w, "TypeError") ELSE map_to(w, st, val, b[1])
          [] ~unknown /\ fn.fnname = "map_by" ->
                IF n # 1 THEN Raise(w, "TypeError") ELSE map_by(w, st, val, b[1])

\* _HASH_PATTERN.fullmatch: hash\s?\(([^)]*)\)$ ; the position of "(" or 0
HASH_PATTERN(s) ==
    LET o == IF Len(s) >= 5 /\ Ch(s, 5) \in Space THEN 6 ELSE 5
    IN  IF StartsWith(s, "hash") /\ Len(s) > o /\ Ch(s, o) = "("
           /\ IndexOf(s, ")", o + 1) = Len(s)
        THEN o ELSE 0

\* _DT_PATTERN.fullmatch: ^(.+)\^\^(<[^>]+>)$ ; the position of "^^" or 0,
\* the rightmost one that fits since (.+) is greedy
DT_PATTERN(s) ==
    LET at == {i \in 2..(Len(s) - 4) : /\ SubSeq(s, i, i + 2) = "^^<"
                                       /\ i + 3 < Len(s)
                                       /\ IndexOf(s, ">", i + 3) = Len(s)}
    IN  IF at = {} THEN 0 ELSE CHOOSE i \in at : \A k \in at : i >= k

\* _LANGSTRING_PATTERN.fullmatch: ^(.+)@([\w\-]+)$ ; the position of "@" or 0
LastIndexOf(s, c, i) ==
    LET at == {j \in 1..i : Ch(s, j) = c}
    IN  IF at = {} THEN 0 ELSE CHOOSE j \in at : \A k \in at : j >= k

LANGSTRING_PATTERN(s) ==
    LET a == LastIndexOf(s, "@", Len(s))
    IN  IF a >= 2 /\ a < Len(s) /\ AllIn(From(s, a + 1), WordChar \cup {"-"})
        THEN a ELSE 0

\* _expand_curi
expand_curi(uriref, namespaces) ==
    LET m == CURI_PATTERN(uriref)
    IN  IF m # <<>> /\ m[1] \in DOMAIN namespaces /\ namespaces[m[1]] # ""
        THEN namespaces[m[1]] \o m[2]
        ELSE uriref

\* urllib.parse.urljoin(base, url) for a base that ends with "/": a url that
\* has a scheme of its own is returned as it is, a url that starts with "/"
\* replaces the path of the base, any other url is appended to the base.
\* ("." and ".." segments, "?" and "#" are not interpreted.)
urljoin(base, url) ==
    LET colon  == IndexOf(url, ":", 1)
        scheme == colon > 1 /\ Ch(url, 1) \in Lower \cup Upper
                  /\ AllIn(SubSeq(url, 1, colon - 1),
                           Lower \cup Upper \cup Digit \cup {"+", "-", "."})
        auth   == IndexOf(base, "/", IndexOf(base, ":", 1) + 3)
    IN  IF url = "" THEN base
        ELSE IF scheme THEN url
        ELSE IF StartsWith(url, "/") THEN SubSeq(base, 1, auth - 1) \o url
        ELSE base \o url

DataBase(w, st) ==
    str(get(w, st, "$datasetBase")) \o "/data/" \o str(get(w, st, "$resourceID"))

\* the digest of <hash(p1, p2, ...)>: a quoted parameter is its text, any other
\* is str(state.get(p))
HashParams(w, st, params) ==
    Concat([i \in 1..Len(params) |->
        IF StartsWith(params[i], "'") /\ EndsWith(params[i], "'")
        THEN SubSeq(params[i], 2, Len(params[i]) - 1)
        ELSE str(get(w, st, params[i]))])

uri_expand(w, st, pattern, namespaces) ==
    IF StartsWith(pattern, "<") /\ EndsWith(pattern, ">")
    THEN
        LET inner == SubSeq(pattern, 2, Len(pattern) - 1)
            row   == get(w, st, "$row")
            idx   == get(w, st, "$listIndex")
            par   == get(w, st, "$parentID")
        IN  Bind([r \in {
              IF inner = "uuid"
              THEN Ret([w EXCEPT !.fresh = @ + 1], Str("uuid-" \o ToString(w.fresh)))
              ELSE IF inner = "row"
              THEN IF ~Truthy(row) THEN Ret(w, NoneV)
                   ELSE IF get(w, st, "$file").t # "str" THEN Raise(w, "AttributeError")
                   ELSE LET u == normalize(get(w, st, "$file").v) \o "-" \o str(row)
                        IN  Ret(w, Str(IF idx # NoneV THEN str(idx) \o "/" \o u ELSE u))
              ELSE IF inner = "parent"
              THEN IF ~Truthy(par) THEN Ret(w, NoneV)
                   ELSE IF get(w, st, "$resourceID").t # "str" THEN Raise(w, "TypeError")
                   ELSE LET u == str(par) \o "/" \o get(w, st, "$resourceID").v
                        IN  Ret(w, Str(IF idx # NoneV THEN u \o "/" \o str(idx) ELSE u))
              ELSE IF HASH_PATTERN(inner) # 0
              THEN Ret(w, Str(Digest(HashParams(w, st,
                        SplitOn(SubSeq(inner, HASH_PATTERN(inner) + 1, Len(inner) - 1), ",")))))
              ELSE Bind([e \in {pattern_expand(w, st, inner)} |->
                   IF e.exc # "" THEN e
                   ELSE IF Truthy(e.val) /\ e.val.t \in {"str", "uri", "lit"}
                   THEN Ret(e.w, Str(expand_curi(expand_curi(str(e.val), namespaces),
                                                 namespaces)))
                   ELSE Raise(e.w, "ValueError")])} |->
            IF r.exc # "" THEN r
            ELSE IF Truthy(r.val)
            THEN IF URI_PATTERN(r.val.v) THEN Ret(r.w, r.val.v)
                 ELSE Ret(r.w, urljoin(DataBase(r.w, st) \o "/", r.val.v))
            ELSE Ret(r.w, DataBase(r.w, st))])
    ELSE
        LET id == str(get(w, st, "$datasetBase")) \o "/def/" \o normalize(pattern)
        IN  IF w.spec.auto_declare
            THEN Bind([d \in {record_implicit_prop(w, st, pattern, id, NoneV)}
                       |-> IF d.exc # "" THEN d ELSE Ret(d.w, id)])
            ELSE Ret(w, id)

\* _value_to_rdf
value_to_rdf(w, st, val) ==
    IF IsTerm(val) THEN Ret(w, val)
    ELSE IF val = NoneV THEN Ret(w, NoneV)
    ELSE IF val.t = "list" THEN list_to_rdf(w, st, val.v, 1, <<>>)
    ELSE IF val.t = "str" THEN
        IF LANGSTRING_PATTERN(val.v) # 0
        THEN Ret(w, Literal(SubSeq(val.v, 1, LANGSTRING_PATTERN(val.v) - 1), "",
                            From(val.v, LANGSTRING_PATTERN(val.v) + 1)))
        ELSE IF DT_PATTERN(val.v) # 0
        THEN LET dt == Call("uri_expand", <<w, st, From(val.v, DT_PATTERN(val.v) + 2),
                                  w.spec.namespaces>>)
             IN  IF dt.exc # "" THEN dt
                 ELSE Ret(dt.w, Literal(SubSeq(val.v, 1, DT_PATTERN(val.v) - 1), dt.val, ""))
        ELSE Ret(w, Literal(val.v, "", ""))
    ELSE IF val.t = "int" THEN Ret(w, Literal(ToString(val.v), "xsd:integer", ""))
    ELSE Ret(w, Literal(str(val), "", ""))

list_to_rdf(w, st, vals, i, out) ==
    IF i > Len(vals) THEN Ret(w, ListV(out))
    ELSE LET r == Call("value_to_rdf", <<w, st, vals[i]>>)
         IN  IF r.exc # "" THEN r
             ELSE list_to_rdf(r.w, st, vals, i + 1, Append(out, r.val))

\* a back-reference that raises when no resource of that name was produced
value_expandMutant(w, st, pattern, namespaces) ==
    IF StartsWith(pattern, "<") /\ EndsWith(pattern, ">") /\ DT_PATTERN(pattern) = 0
    THEN IF StartsWith(pattern, "<::")
         THEN LET name == SubSeq(pattern, 4, Len(pattern) - 1)
                  v == Get(w.backlinks[st.backlinks], name)
              IN  IF v = NoneV THEN Raise(Event(w, "backref", name, "", v), "ValueError")
                  ELSE Ret(Event(w, "backref", name, "", v), v)
         ELSE LET u == Call("uri_expand", <<w, st, pattern, namespaces>>)
              IN  IF u.exc # "" THEN u ELSE Ret(u.w, URIRef(u.val))
    ELSE Bind([e \in {pattern_expand(w, st, pattern)} |->
         IF e.exc # "" THEN e ELSE value_to_rdf(e.w, st, e.val)])

value_expand(w, st, pattern, namespaces) ==
    IF StartsWith(pattern, "<") /\ EndsWith(pattern, ">") /\ DT_PATTERN(pattern) = 0
    THEN IF StartsWith(pattern, "<::")
         THEN LET name == SubSeq(pattern, 4, Len(pattern) - 1)
                  v == Get(w.backlinks[st.backlinks], name)
              IN  Ret(Event(w, "backref", name, "", v), v)
         ELSE LET u == Call("uri_expand", <<w, st, pattern, namespaces>>)
              IN  IF u.exc # "" THEN u ELSE Ret(u.w, URIRef(u.val))
    ELSE Bind([e \in {pattern_expand(w, st, pattern)} |->
         IF e.exc # "" THEN e ELSE value_to_rdf(e.w, st, e.val)])

(***************************************************************************)
(* 6. Resources and properties (template_support.py)                       *)
(***************************************************************************)
\* the requires filter: TRUE when no listed key rules the record out
\* the requires test with the empty string let through
requires_okMutant(w, st, rs) ==
    ~Truthy(rs.requires) \/
    \A key \in DOMAIN rs.requires.v :
        LET value    == get(w, st, key)
            expected == rs.requires.v[key]
        IN  IF expected # NoneV
            THEN IF expected.t = "list"
                 THEN \E i \in 1..Len(expected.v) : expected.v[i] = value
                 ELSE value = expected
            ELSE value # NoneV

requires_ok(w, st, rs) ==
    ~Truthy(rs.requires) \/
    \A key \in DOMAIN rs.requires.v :
        LET value    == get(w, st, key)
            expected == rs.requires.v[key]
        IN  IF expected # NoneV
            THEN IF expected.t = "list"
                 THEN \E i \in 1..Len(expected.v) : expected.v[i] = value
                 ELSE value = expected
            ELSE value # NoneV /\ value # Str("")

\* unless and preserved_graph of a resource template, which
\* process_resource_spec reads as rs.unless and rs.preserved_graph
unless_of(rs) == rs.unless

preserved_graph_of(rs) == rs.preserved_graph

\* the unless filter with the null form hit by any value that is present
unless_hitMutant(w, st, rs) ==
    Truthy(unless_of(rs)) /\
    \E key \in DOMAIN unless_of(rs).v :
        LET value        == get(w, st, key)
            unless_value == unless_of(rs).v[key]
        IN  IF unless_value = NoneV
            THEN value # NoneV
            ELSE IF unless_value.t = "list"
                 THEN \E i \in 1..Len(unless_value.v) : unless_value.v[i] = value
                 ELSE value = unless_value

\* the unless filter: TRUE when some listed key rules the record out
unless_hit(w, st, rs) ==
    Truthy(unless_of(rs)) /\
    \E key \in DOMAIN unless_of(rs).v :
        LET value        == get(w, st, key)
            unless_value == unless_of(rs).v[key]
        IN  IF unless_value = NoneV
            THEN value # NoneV /\ value # Str("")
            ELSE IF unless_value.t = "list"
                 THEN \E i \in 1..Len(unless_value.v) : unless_value.v[i] = value
                 ELSE value = unless_value

AUTO_CLASS_SPEC ==
    Resource("AUTO_CLASS", <<
        <<"@id", Str("<{id}>")>>,
        <<"@type", Str("<owl:Class>")>>,
        <<"<rdfs:label>", Str("{label}")>>,
        <<"<rdfs:comment>", Str("{comment}")>> >>)

AUTO_PROP_SPEC ==
    Resource("AUTO_PROP", <<
        <<"@id", Str("<{id}>")>>,
        <<"@type", Str("<rdf:Property>")>>,
        <<"<rdfs:label>", Str("{label}")>>,
        <<"<rdfs:comment>", Str("{comment}")>> >>)

create_resource(w, st, data, rs) ==
    IF ~Truthy(rs.name) THEN Raise(w, "ValueError")
    ELSE LET c == child(w, st, data)
         IN  Call("process_resource_spec", <<c.w, c.val, rs.name, rs>>)

\* _create_resource({...}, state, rs) on a dict display
create_resource_of(w, st, m, rs) ==
    LET d == new_dict(w, m)
    IN  Call("create_resource", <<d.w, st, d.val, rs>>)

record_implicit_class(w, st, name, id, comment) ==
    LET known == record_auto_emit(w, st, "class", name)
    IN  IF known.val THEN Ret(known.w, NoneV)
        ELSE create_resource_of(Event(known.w, "implicit", "class", name, Str(id)), st,
                 ("id" :> Str(id)) @@ ("label" :> Str(name)) @@ ("comment" :> comment),
                 AUTO_CLASS_SPEC)

record_implicit_prop(w, st, name, id, comment) ==
    LET known == record_auto_emit(w, st, "prop", name)
    IN  IF known.val THEN Ret(known.w, NoneV)
        ELSE create_resource_of(Event(known.w, "implicit", "prop", name, Str(id)), st,
                 ("id" :> Str(id)) @@ ("label" :> Str(name)) @@ ("comment" :> comment),
                 AUTO_PROP_SPEC)

\* a graph step that selects the graph in the state it is given
graph_selectMutant(w, st, rs) ==
    IF ~Truthy(rs.graph) THEN Ret(w, st)
    ELSE LET g == Call("uri_expand", <<w, st, rs.graph.v, w.spec.namespaces>>)
         IN  IF g.exc # "" THEN g
             ELSE Ret(add_to_context(g.w, st, "$graph", Str(g.val)), st)

\* the graph step: the state the rest of the application runs in
graph_select(w, st, rs) ==
    IF ~Truthy(rs.graph) THEN Ret(w, st)
    ELSE LET g == Call("uri_expand", <<w, st, rs.graph.v, w.spec.namespaces>>)
         IN  IF g.exc # "" THEN g
             ELSE switch_to_graph(g.w, st, g.val, preserved_graph_of(rs))

\* the identity step: a blank node for "<_>", else the expanded @id
\* an identity step that falls back on the default identifier when the @id
\* pattern cannot be expanded
identityMutant(w, st, rs) ==
    LET found       == find_prop_defn(rs, "@id")
        id_template == IF Truthy(found) THEN found ELSE Str("<row>")
    IN  IF id_template = Str("<_>")
        THEN Ret([w EXCEPT !.fresh = @ + 1], BNode(w.fresh))
        ELSE IF id_template.t # "str" THEN Raise(w, "AttributeError")
        ELSE LET u == Call("uri_expand", <<w, st, id_template.v, w.spec.namespaces>>)
             IN  IF u.exc # ""
                 THEN Ret(w, URIRef(str(get(w, st, "$datasetBase")) \o "/data/"
                                        \o str(get(w, st, "$resourceID"))))
                 ELSE Ret(u.w, URIRef(u.val))

identity(w, st, rs) ==
    LET found       == find_prop_defn(rs, "@id")
        id_template == IF Truthy(found) THEN found ELSE Str("<row>")
    IN  IF id_template = Str("<_>")
        THEN Ret([w EXCEPT !.fresh = @ + 1], BNode(w.fresh))
        ELSE IF id_template.t # "str" THEN Raise(w, "AttributeError")
        ELSE LET u == Call("uri_expand", <<w, st, id_template.v, w.spec.namespaces>>)
             IN  IF u.exc # "" THEN u ELSE Ret(u.w, URIRef(u.val))

\* the type step
assign_type(w, st, name, rs, resource) ==
    LET type_template == find_prop_defn(rs, "@type")
    IN  IF ~Truthy(type_template) /\ w.spec.auto_declare
        THEN LET u == Call("uri_expand", <<w, st, "<{$datasetBase}/def/{$resourceID}>",
                                           w.spec.namespaces>>)
             IN  IF u.exc # "" THEN u
                 ELSE Bind([d \in {record_implicit_class(u.w, st, name, u.val,
                                                         rs.comment)} |->
                      IF d.exc # "" THEN d
                      ELSE add_to_graph(d.w, st, <<resource, RDF_type, URIRef(u.val)>>)])
        ELSE IF Truthy(type_template)
        THEN IF type_template.t # "str" THEN Raise(w, "AttributeError")
             ELSE LET u == Call("uri_expand", <<w, st, type_template.v,
                                                w.spec.namespaces>>)
                  IN  IF u.exc # "" THEN u
                      ELSE add_to_graph(u.w, st, <<resource, RDF_type, URIRef(u.val)>>)
        ELSE Ret(w, NoneV)

\* the loop over rs.properties with every exception caught at the property
process_propertiesMutant(w, st, resource, properties, i) ==
    IF i > Len(properties) THEN Ret(w, resource)
    ELSE LET r == Call("process_property_value", <<w, st, resource, properties[i][1],
                                         properties[i][2]>>)
         IN  IF r.exc # ""
             THEN process_properties(
                      Event(r.w, "skip_property", properties[i][1], r.exc, resource),
                      st, resource, properties, i + 1)
             ELSE process_properties(r.w, st, resource, properties, i + 1)

\* the loop over rs.properties: a ValueError skips the property, any other
\* exception is raised again as a ValueError of the resource
process_properties(w, st, resource, properties, i) ==
    IF i > Len(properties) THEN Ret(w, resource)
    ELSE LET r == Call("process_property_value", <<w, st, resource, properties[i][1],
                                         properties[i][2]>>)
         IN  IF r.exc = "ValueError"
             THEN process_properties(
                      Event(r.w, "skip_property", properties[i][1], r.exc, resource),
                      st, resource, properties, i + 1)
             ELSE IF r.exc # ""
             THEN Raise(Event(r.w, "fail_property", properties[i][1], r.exc, resource),
                        "ValueError")
             ELSE process_properties(r.w, st, resource, properties, i + 1)

\* process_resource_spec that selects the graph before it applies the filters
process_resource_specMutant(w, st, name, rs) ==
    LET w0 == add_to_context(w, st, "$resourceID", Str(name.v))
    IN  Bind([g \in {graph_select(w0, st, rs)} |->
        IF g.exc # "" THEN g
        ELSE IF ~requires_ok(w0, st, rs) \/ unless_hit(w0, st, rs)
        THEN Ret(Event(g.w, "skipped", name.v, "", NoneV), NoneV)
        ELSE
        Bind([id \in {identity(g.w, g.val, rs)} |->
        IF id.exc # "" THEN id
        ELSE
        LET state    == g.val
            resource == id.val
            w1 == [id.w EXCEPT !.backlinks[state.backlinks] = Put(@, name.v, resource)]
            w2 == add_to_context(Event(w1, "resource", name.v, "", resource),
                                 state, "$parentID", Str(str(resource)))
        IN  Bind([ty \in {assign_type(w2, state, name.v, rs, resource)} |->
            IF ty.exc # "" THEN ty
            ELSE LET p == process_properties(ty.w, state, resource, rs.properties, 1)
                 IN  IF p.exc # "" THEN p
                     ELSE Ret(Event(p.w, "emitted", name.v, "", resource), resource)])])])

process_resource_spec(w, st, name, rs) ==
    LET w0 == add_to_context(w, st, "$resourceID", Str(name.v))
    IN  IF ~requires_ok(w0, st, rs) \/ unless_hit(w0, st, rs)
        THEN Ret(Event(w0, "skipped", name.v, "", NoneV), NoneV)
        ELSE
        Bind([g \in {graph_select(w0, st, rs)} |->
        IF g.exc # "" THEN g
        ELSE
        Bind([id \in {identity(g.w, g.val, rs)} |->
        IF id.exc # "" THEN id
        ELSE
        LET state    == g.val
            resource == id.val
            w1 == [id.w EXCEPT !.backlinks[state.backlinks] = Put(@, name.v, resource)]
            w2 == add_to_context(Event(w1, "resource", name.v, "", resource),
                                 state, "$parentID", Str(str(resource)))
        IN  Bind([ty \in {assign_type(w2, state, name.v, rs, resource)} |->
            IF ty.exc # "" THEN ty
            ELSE LET p == process_properties(ty.w, state, resource, rs.properties, 1)
                 IN  IF p.exc # "" THEN p
                     ELSE Ret(Event(p.w, "emitted", name.v, "", resource), resource)])])])

\* a list form in which the error of an item ends the list
RECURSIVE process_template_itemsMutant(_, _, _, _, _, _)
process_template_itemsMutant(w, st, resource, prop, items, i) ==
    IF i > Len(items) THEN Ret(w, NoneV)
    ELSE LET r == Call("process_property_value", <<w, st, resource, prop, items[i]>>)
         IN  IF r.exc # "" THEN r
             ELSE process_template_itemsMutant(r.w, st, resource, prop, items, i + 1)

\* the list form of a template: each item on its own, a ValueError skips the item
process_template_items(w, st, resource, prop, items, i) ==
    IF i > Len(items) THEN Ret(w, NoneV)
    ELSE LET r == Call("process_property_value", <<w, st, resource, prop, items[i]>>)
         IN  IF r.exc = "ValueError"
             THEN process_template_items(
                      Event(r.w, "skip_item", prop, r.exc, resource),
                      st, resource, prop, items, i + 1)
             ELSE IF r.exc # "" THEN r
             ELSE process_template_items(r.w, st, resource, prop, items, i + 1)

\* state.add_to_graph for each value of a list, in the direction written
RECURSIVE add_values(_, _, _, _, _, _)
add_values(w, st, resource, propref, vals, i) ==
    IF i > Len(vals) THEN Ret(w, NoneV)
    ELSE LET a == add_to_graph(w, st, <<resource, propref, vals[i]>>)
         IN  IF a.exc # "" THEN a
             ELSE add_values(a.w, st, resource, propref, vals, i + 1)

process_property_value(w, st, resource, prop0, template0) ==
    IF prop0 \in {"@id", "@type", "@graph"} THEN Ret(w, NoneV)
    ELSE IF template0.t = "list"
    THEN process_template_items(w, st, resource, prop0, template0.v, 1)
    ELSE
    LET inverse  == StartsWith(prop0, "^")
        prop1    == IF inverse THEN From(prop0, 2) ELSE prop0
        usesSpec == StartsWith(prop1, ":")
        specName == From(prop1, 2)
        hasSpec  == usesSpec /\ specName \in DOMAIN w.spec.propertySpecs
    IN  IF usesSpec /\ ~hasSpec THEN Raise(w, "ValueError")
        ELSE IF hasSpec /\ template0.t # "str"
                /\ (Truthy(w.spec.propertySpecs[specName].type)
                    \/ Truthy(w.spec.propertySpecs[specName].reconciliationType))
        THEN Raise(w, "AttributeError")
        ELSE
        LET prop_spec == w.spec.propertySpecs[specName]
            pv        == IF hasSpec /\ template0.t = "str"
                         THEN propValueTemplate(prop_spec, template0.v)
                         ELSE <<IF hasSpec THEN prop_spec.prop ELSE prop1, "">>
            prop      == pv[1]
            template  == IF hasSpec /\ template0.t = "str" THEN Str(pv[2]) ELSE template0
            typed     == hasSpec /\ Truthy(prop_spec.cls)
            propname  == IF hasSpec THEN prop_spec.name ELSE prop
            cls       == IF typed
                         THEN Call("uri_expand", <<w, st, prop_spec.cls.v,
                                                   w.spec.namespaces>>)
                         ELSE Ret(w, "")
        IN  Bind([clsAdd \in {IF typed /\ cls.exc = ""
                              THEN add_to_graph(cls.w, st,
                                       <<resource, RDF_type, URIRef(cls.val)>>)
                              ELSE cls} |->
            IF clsAdd.exc # "" THEN clsAdd
            ELSE
            LET u       == Call("uri_expand", <<clsAdd.w, st, prop, w.spec.namespaces>>)
                propref == URIRef(u.val)
                decl    == IF hasSpec /\ w.spec.auto_declare
                           THEN record_implicit_prop(u.w, st, prop_spec.name,
                                                     str(propref), prop_spec.comment)
                           ELSE Ret(u.w, NoneV)
            IN  IF u.exc # "" THEN u
                ELSE
                Bind([value \in {
                       IF decl.exc # "" THEN decl
                       ELSE IF template.t = "str"
                       THEN LET c == child_of(decl.w, st, "$prop" :> Str(propname))
                            IN  value_expand(c.w, c.val,
                                    IF template.v = "" THEN "{" \o prop \o "}"
                                    ELSE template.v,
                                    w.spec.namespaces)
                       ELSE IF template.t = "map"
                       THEN IF ~Truthy(template.v.name) THEN Raise(decl.w, "ValueError")
                            ELSE Call("process_resource_spec",
                                      <<decl.w, st, template.v.name, template.v>>)
                       ELSE Raise(decl.w, "NotImplementedError")} |->
                IF value.exc # "" THEN value
                ELSE IF value.val.t = "list"
                THEN add_values(value.w, st, resource, propref, value.val.v, 1)
                ELSE IF value.val # NoneV
                THEN add_to_graph(value.w, st,
                         IF inverse THEN <<value.val, propref, resource>>
                         ELSE <<resource, propref, value.val>>)
                ELSE IF hasSpec /\ prop_spec.required THEN Raise(value.w, "ValueError")
                ELSE Ret(value.w, NoneV)])])

(***************************************************************************)
(* 6b. Transform functions that create resources                           *)
(***************************************************************************)
map_to(w, st, data, rsname) ==
    IF ~Truthy(data) THEN Ret(w, NoneV)
    ELSE IF rsname.t # "str" \/ rsname.v \notin DOMAIN w.spec.embedded_resources
    THEN Raise(w, "ValueError")
    ELSE IF data.t # "dict" THEN Raise(w, "ValueError")
    ELSE Call("create_resource", <<w, st, data.v, w.spec.embedded_resources[rsname.v]>>)

map_by(w, st, data, mapping_name) ==
    IF ~Truthy(data) THEN Ret(w, NoneV)
    ELSE IF mapping_name.t # "str" \/ mapping_name.v \notin DOMAIN w.spec.mappings
            \/ DOMAIN w.spec.mappings[mapping_name.v] = {}
    THEN Raise(w, "ValueError")
    ELSE IF data.t # "str" THEN Raise(w, "ValueError")
    ELSE IF data.v \notin DOMAIN w.spec.mappings[mapping_name.v] THEN Raise(w, "ValueError")
    ELSE Bind([value \in {value_expand(w, st, w.spec.mappings[mapping_name.v][data.v],
                                       w.spec.namespaces)} |->
         IF value.exc # "" THEN value
         ELSE IF value.val = NoneV THEN Raise(value.w, "ValueError")
         ELSE IF value.val.t = "list"
         THEN IF Len(value.val.v) = 0 THEN Raise(value.w, "IndexError")
              ELSE Ret(value.w, value.val.v[1])
         ELSE value])

\* what the reconciliation service can answer to one request
Responses == {"match1", "match2", "possible", "error"}

RECONCILIATION_VOCAB == "http://epimorphics.net/vocabs/reconciliation/"

\* reconcile.requestReconcile for one term: the POST is the external lookup;
\* a status other than 200 raises ValueError, else one MatchResult comes back.
\* The list it returns has one place for each term: an answer with no entry
\* for the term ("none") leaves None in that place, an answer with an entry
\* for a term that was not sent ("extra") is an IndexError.
requestReconcile(w, endpoint, key, type) ==
    LET w1 == Event(w, "lookup", str(key), str(type), endpoint)
    IN  IF w.oracle = "error" THEN Raise(w1, "ValueError")
        ELSE IF w.oracle = "extra" THEN Raise(w1, "IndexError")
        ELSE IF w.oracle = "none" THEN Ret(w1, NoneV)
        ELSE IF w.oracle = "possible"
        THEN Ret(w1, [match |-> NoneV,
                      possible_matches |-> <<[id |-> "http://ref.example/candidate",
                                              name |-> "candidate", score |-> "0.5"]>>])
        ELSE Ret(w1, [match |-> Str("http://ref.example/" \o w.oracle),
                      possible_matches |-> <<>>])

\* MatchEntry.record_as_rdf on state.current_graph()
RECURSIVE record_as_rdf(_, _, _, _, _)
record_as_rdf(w, st, pms, i, proxy) ==
    IF i > Len(pms) THEN Ret(w, proxy)
    ELSE LET node == BNode(w.fresh)
             w0 == [w EXCEPT !.fresh = @ + 1]
             a1 == add_to_graph(w0, st, <<node, URIRef(RECONCILIATION_VOCAB \o "score"),
                                          Literal(pms[i].score, "xsd:decimal", "")>>)
             a2 == add_to_graph(a1.w, st, <<node, URIRef(RECONCILIATION_VOCAB \o "match"),
                                            URIRef(pms[i].id)>>)
             a3 == add_to_graph(a2.w, st, <<node, URIRef(RECONCILIATION_VOCAB \o "label"),
                                            Literal(pms[i].name, "", "")>>)
             a4 == add_to_graph(a3.w, st, <<proxy,
                                            URIRef(RECONCILIATION_VOCAB \o "possibleMatch"),
                                            node>>)
         IN  record_as_rdf(a4.w, st, pms, i + 1, proxy)

PROXY_CONCEPT_SPEC(name) ==
    ResourceSpec(name, NoneV, FALSE,
        << <<"@id", Str("<hash(key,keytype)>")>>,
           <<"@type", Str("<{keytype}>")>>,
           <<"<skos:prefLabel>", Str("{key}")>> >>,
        NoneV, NoneV)

\* the placeholder for a key the service did not match
reconcile_proxy(w, st, key, type, name, matchResult) ==
    LET r == create_resource_of(w, st,
                 ("key" :> key) @@
                 ("keytype" :> IF Truthy(type) THEN type ELSE Str(SKOS_Concept)),
                 PROXY_CONCEPT_SPEC(name))
    IN  IF r.exc # "" THEN r
        ELSE IF ~Truthy(r.val) THEN Raise(r.w, "ValueError")
        ELSE record_as_rdf(r.w, st, matchResult.possible_matches, 1, r.val)

\* a reconcile that makes the placeholder whatever skip_placeholders says
reconcileMutant(w, st, key, b) ==
    LET name     == b[1]
        type0    == Arg(b, 2)
        endpoint == Arg(b, 3)
        skip_placeholders == Arg(b, 5)
        cached   == reconciled_ref(w, st, str(key), type0)
    IN  IF Truthy(cached)
        THEN Ret(Event(w, "reconciled", str(key), str(type0), cached), cached)
        ELSE
        LET api == IF Truthy(endpoint) THEN endpoint ELSE get(w, st, "$reconciliationAPI")
        IN  IF ~Truthy(api) THEN Raise(w, "ValueError")
            ELSE IF Truthy(type0) /\ type0.t # "str" THEN Raise(w, "TypeError")
            ELSE
            LET type == IF Truthy(type0)
                        THEN Str(expand_curi(type0.v, w.spec.namespaces))
                        ELSE type0
                m == requestReconcile(w, api, key, type)
            IN  IF m.exc # "" THEN m
                ELSE IF m.val = NoneV THEN Raise(m.w, "AttributeError")
                ELSE
                Bind([id \in {IF Truthy(m.val.match) THEN Ret(m.w, URIRef(m.val.match.v))
                              ELSE IF TRUE
                              THEN reconcile_proxy(m.w, st, key, type, name, m.val)
                              ELSE Ret(m.w, NoneV)} |->
                IF id.exc # "" THEN id
                ELSE IF ~Truthy(id.val) THEN Raise(id.w, "ValueError")
                ELSE Ret(Event(record_reconcile_request(id.w, st,
                                   ReconciliationRecord(str(key), type, id.val)),
                               "reconciled", str(key), str(type0), id.val),
                         id.val)])

\* reconcile; requestReconcile hands back a list as long as the list of terms,
\* so the branch for a list of any other length is never taken
reconcile(w, st, key, b) ==
    LET name     == b[1]
        type0    == Arg(b, 2)
        endpoint == Arg(b, 3)
        skip_placeholders == Arg(b, 5)
        cached   == reconciled_ref(w, st, str(key), type0)
    IN  IF Truthy(cached)
        THEN Ret(Event(w, "reconciled", str(key), str(type0), cached), cached)
        ELSE
        LET api == IF Truthy(endpoint) THEN endpoint ELSE get(w, st, "$reconciliationAPI")
        IN  IF ~Truthy(api) THEN Raise(w, "ValueError")
            ELSE IF Truthy(type0) /\ type0.t # "str" THEN Raise(w, "TypeError")
            ELSE
            LET type == IF Truthy(type0)
                        THEN Str(expand_curi(type0.v, w.spec.namespaces))
                        ELSE type0
                m == requestReconcile(w, api, key, type)
            IN  IF m.exc # "" THEN m
                ELSE IF m.val = NoneV THEN Raise(m.w, "AttributeError")
                ELSE
                Bind([id \in {IF Truthy(m.val.match) THEN Ret(m.w, URIRef(m.val.match.v))
                              ELSE IF ~Truthy(skip_placeholders)
                              THEN reconcile_proxy(m.w, st, key, type, name, m.val)
                              ELSE Ret(m.w, NoneV)} |->
                IF id.exc # "" THEN id
                ELSE IF ~Truthy(id.val) THEN Raise(id.w, "ValueError")
                ELSE Ret(Event(record_reconcile_request(id.w, st,
                                   ReconciliationRecord(str(key), type, id.val)),
                               "reconciled", str(key), str(type0), id.val),
                         id.val)])

AUTO_CONCEPT_SPEC ==
    Resource("autoCVlabel", <<
        <<"@id", Str("<{id}>")>>,
        <<"@type", Str("<skos:Concept>")>>,
        <<"<skos:prefLabel>", Str("{label}")>>,
        <<"<skos:inScheme>", Str("<{schemeID}>")>>,
        <<"<skos:topConceptOf>", Str("<{schemeID}>")>>,
        <<"^<skos:hasTopConcept>", Str("<{schemeID}>")>> >>)

AUTO_CONCEPT_SCHEME_SPEC ==
    Resource("autoCVscheme", <<
        <<"@id", Str("<{id}>")>>,
        <<"@type", Str("<skos:ConceptScheme>")>>,
        <<"<dct:title>", Str("{name}")>>,
        <<"<dct:description>", Str("Automatically generated concept scheme {name}")>> >>)

\* the scheme of a vocabulary: the cached one, else a new one that is cached
autoCV_scheme(w, st, cv_name, base) ==
    LET schemeID == get_auto_entry(w, st, cv_name \o "_", "scheme")
    IN  IF Truthy(schemeID) THEN Ret(w, schemeID)
        ELSE LET r == create_resource_of(Event(w, "cv_scheme", cv_name, "", NoneV), st,
                          ("name" :> Str(cv_name)) @@ ("id" :> Str(base \o "_scheme")),
                          AUTO_CONCEPT_SCHEME_SPEC)
             IN  IF r.exc # "" THEN r
                 ELSE IF ~Truthy(r.val) THEN Raise(r.w, "ValueError")
                 ELSE Ret(record_auto_cv(r.w, st, cv_name \o "_", "scheme", r.val), r.val)

autoCV(w, st, label, b) ==
    LET cv_name0 == b[1]
        cv_type  == Arg(b, 2)
    IN  IF ~Truthy(label) THEN Ret(w, NoneV)
        ELSE IF label.t \notin {"str", "list", "dict"} THEN Raise(w, "TypeError")
        ELSE
        LET cached  == get_auto_entry(w, st, str(cv_name0), str(label))
            cv_name == IF Truthy(cv_name0) THEN cv_name0 ELSE get(w, st, "$prop")
            dsb     == get(w, st, "$datasetBase")
        IN  IF Truthy(cached)
            THEN Ret(Event(w, "cv_ret", str(cv_name), str(label), cached), cached)
            ELSE IF dsb.t # "str" \/ cv_name.t # "str" THEN Raise(w, "TypeError")
            ELSE
            LET base  == dsb.v \o "/def/" \o cv_name.v
                idstr == base \o "/" \o (IF cv_type = Str("hash")
                                         THEN Digest(str(label))
                                         ELSE normalize(label.v))
            IN  Bind([sch \in {autoCV_scheme(w, st, cv_name.v, base)} |->
                IF sch.exc # "" THEN sch
                ELSE IF cv_type # Str("hash") /\ label.t # "str"
                THEN Raise(sch.w, "AttributeError")
                ELSE
                LET r == create_resource_of(
                             Event(sch.w, "cv_concept", cv_name.v, str(label), Str(idstr)),
                             st,
                             ("label" :> label) @@ ("schemeID" :> sch.val)
                                 @@ ("id" :> Str(idstr)),
                             AUTO_CONCEPT_SPEC)
                IN  IF r.exc # "" THEN r
                    ELSE IF ~Truthy(r.val) THEN Raise(r.w, "ValueError")
                    ELSE Ret(Event(record_auto_cv(r.w, st, cv_name.v, str(label), r.val),
                                   "cv_ret", cv_name.v, str(label), r.val),
                             r.val)])

\* the dispatch of Call
Call(f, a) ==
    CASE f = "uri_expand" -> uri_expand(a[1], a[2], a[3], a[4])
      [] f = "call_fn" -> call_fn(a[1], a[2], a[3], a[4])
      [] f = "value_to_rdf" -> value_to_rdf(a[1], a[2], a[3])
      [] f = "create_resource" -> create_resource(a[1], a[2], a[3], a[4])
      [] f = "process_resource_spec" -> process_resource_spec(a[1], a[2], a[3], a[4])
      [] f = "process_property_value" ->
             process_property_value(a[1], a[2], a[3], a[4], a[5])

(***************************************************************************)
(* 7. TemplateProcessor (template_processor.py)                            *)
(***************************************************************************)
\* the objects that exist once the modules are loaded and the specification
\* is built: the two maps of spec.context, and the default arguments of
\* TemplateState.__init__ (one set and one dict for the whole process)
World(spec) ==
    [scopes    |-> <<spec.globals, builtins>>,
     backlinks |-> <<>>,
     preserved |-> <<{}>>,
     reconcile |-> <<EmptyDict>>,
     datasets  |-> <<>>,
     fresh     |-> 1,
     oracle    |-> "error",
     ev        |-> <<>>,
     spec      |-> spec]

log_error(tp) == [tp EXCEPT !.error_count = @ + 1]

\* the loop over spec.one_offs in __init__: nothing is caught here
RECURSIVE process_one_offs(_, _, _)
process_one_offs(w, tp, i) ==
    IF i > Len(w.spec.one_offs) THEN [w |-> w, exc |-> "", val |-> tp]
    ELSE IF ~Truthy(w.spec.one_offs[i].name)
    THEN process_one_offs(w, log_error(tp), i + 1)
    ELSE Bind([r \in {Call("process_resource_spec",
                           <<Event(w, "apply", w.spec.one_offs[i].name.v, "one_off", IntV(i)),
                             tp.state, w.spec.one_offs[i].name, w.spec.one_offs[i]>>)}
         |-> IF r.exc # "" THEN [w |-> r.w, exc |-> r.exc, val |-> tp]
             ELSE process_one_offs(r.w, tp, i + 1)])

\* TemplateProcessor.__init__
TemplateProcessor(w, filename, abort_on_error) ==
    Bind([w1 \in {[w EXCEPT !.datasets = Append(@, EmptyDataset)]} |->
    Bind([d \in {new_dict(w1, ("$file" :> Str(filename)) @@ ("$row" :> NoneV)
                                  @@ ("$graph" :> Str(DEFAULT_GRAPH)))} |->
    Bind([c \in {Ret(d.w, new_child(<<1, 2>>, d.val))} |->
    Bind([s \in {TemplateState(c.w, c.val, Len(w1.datasets), 1, 1)} |->
    process_one_offs(s.w,
        [row |-> 0, abort_on_error |-> abort_on_error, error_count |-> 0,
         context |-> c.val, state |-> s.val, dataset |-> Len(w1.datasets),
         output |-> <<>>],
        1)])])])])

\* the loop over spec.resources in process_row
RECURSIVE process_resources(_, _, _, _)
process_resources(w, tp, state, i) ==
    IF i > Len(w.spec.resources) THEN [w |-> w, tp |-> tp]
    ELSE IF ~Truthy(w.spec.resources[i].name)
    THEN process_resources(w, tp, state, i + 1)
    ELSE Bind([r \in {Call("process_resource_spec",
                           <<Event(w, "apply", w.spec.resources[i].name.v, "resource", IntV(i)),
                             state, w.spec.resources[i].name, w.spec.resources[i]>>)}
         |-> IF r.exc # ""
             THEN process_resources(
                      Event(r.w, "resource_error", str(w.spec.resources[i].name), r.exc,
                            IntV(tp.row)),
                      log_error(tp), state, i + 1)
             ELSE process_resources(r.w, tp, state, i + 1)])

\* json.loads of a line, csv.DictReader of a row: the record as a dict, with a
\* dict of its own for each object nested in it
RECURSIVE loads_nested(_, _, _)
loads_nested(w, m, keys) ==
    IF keys = {} THEN new_dict(w, m)
    ELSE LET k == CHOOSE x \in keys : TRUE
             d == new_dict(w, m[k].v)
         IN  IF DOMAIN m[k].v = {}
             THEN loads_nested(w, Put(m, k, DictV(0)), keys \ {k})
             ELSE loads_nested(d.w, Put(m, k, DictV(d.val)), keys \ {k})

loads(w, m) == loads_nested(w, m, {k \in DOMAIN m : m[k].t = "object"})

\* process_row that goes through the one-offs again
process_rowMutant(w, tp, data) ==
    LET tp1 == [tp EXCEPT !.row = @ + 1]
        w1  == ChainSet(Event(w, "row", "", "", IntV(tp1.row)), tp.context, "$row",
                        IntV(tp1.row))
        c   == child(w1, tp.state, data)
        o   == process_one_offs(c.w, tp1, 1)
    IN  process_resources(o.w, tp1, c.val, 1)

process_row(w, tp, data) ==
    LET tp1 == [tp EXCEPT !.row = @ + 1]
        w1  == ChainSet(Event(w, "row", "", "", IntV(tp1.row)), tp.context, "$row",
                        IntV(tp1.row))
        c   == child(w1, tp.state, data)
    IN  process_resources(c.w, tp1, c.val, 1)

\* Dataset.graphs(): the graphs that exist, and the default graph
graphs(w, tp) == w.datasets[tp.dataset].graphs \cup {DEFAULT_GRAPH}

\* the statements of graph g
statements(w, tp, g) ==
    {<<q[2], q[3], q[4]>> : q \in {x \in w.datasets[tp.dataset].quads : x[1] = g}}

\* _emit_prefixes: dataset.graph(DEFAULT_GRAPH) makes the default graph exist
emit_prefixes(w, tp) ==
    [w EXCEPT !.datasets[tp.dataset].graphs = @ \cup {DEFAULT_GRAPH}]

\* _emit_graph between the lines that open and close the request
emit_graph(op, w, tp, g) ==
    [op |-> op, graph |-> g, wrapped |-> g # DEFAULT_GRAPH, data |-> statements(w, tp, g)]

DROP(g) == [op |-> "DROP", graph |-> g, wrapped |-> TRUE, data |-> {}]

\* the body of write_as_update, the graphs taken in the order given
RECURSIVE update_lines(_, _, _, _)
\* write_as_update without the test of preserved_graphs
update_linesMutant(w, tp, order, i) ==
    IF i > Len(order) THEN <<>>
    ELSE (IF statements(w, tp, order[i]) = {} THEN <<>>
          ELSE <<DROP(order[i]), emit_graph("INSERT", w, tp, order[i])>>)
         \o update_lines(w, tp, order, i + 1)

update_lines(w, tp, order, i) ==
    IF i > Len(order) THEN <<>>
    ELSE (IF statements(w, tp, order[i]) = {} THEN <<>>
          ELSE (IF order[i] \notin w.preserved[tp.state.preserved_graphs]
                THEN <<DROP(order[i])>> ELSE <<>>)
               \o <<emit_graph("INSERT", w, tp, order[i])>>)
         \o update_lines(w, tp, order, i + 1)

\* the body of write_as_delete
RECURSIVE delete_lines(_, _, _, _)
\* write_as_delete without the test of preserved_graphs
delete_linesMutant(w, tp, order, i) ==
    IF i > Len(order) THEN <<>>
    ELSE (IF statements(w, tp, order[i]) = {} THEN <<>> ELSE <<DROP(order[i])>>)
         \o delete_lines(w, tp, order, i + 1)

delete_lines(w, tp, order, i) ==
    IF i > Len(order) THEN <<>>
    ELSE (IF statements(w, tp, order[i]) = {} THEN <<>>
          ELSE IF order[i] \notin w.preserved[tp.state.preserved_graphs]
          THEN <<DROP(order[i])>>
          ELSE <<emit_graph("DELETE", w, tp, order[i])>>)
         \o delete_lines(w, tp, order, i + 1)

write_as_update(w, tp, order) ==
    [w |-> emit_prefixes(w, tp),
     tp |-> [tp EXCEPT !.output = @ \o update_lines(w, tp, order, 1)]]

write_as_delete(w, tp, order) ==
    [w |-> IF w.preserved[tp.state.preserved_graphs] # {} THEN emit_prefixes(w, tp) ELSE w,
     tp |-> [tp EXCEPT !.output = @ \o delete_lines(w, tp, order, 1)]]

\* dataset.serialize(format=fmt): every statement with its graph
write_serialized(w, tp) ==
    [w |-> w,
     tp |-> [tp EXCEPT !.output = Append(@, [op |-> "DATA", graph |-> "", wrapped |-> FALSE,
                                             data |-> w.datasets[tp.dataset].quads])]]

\* finalize that writes before it looks at error_count
finalizeMutantAlwaysWrite(w, tp, fmt, order) ==
    LET out == IF fmt = "update" THEN write_as_update(w, tp, order)
               ELSE IF fmt = "delete" THEN write_as_delete(w, tp, order)
               ELSE write_serialized(w, tp)
    IN  IF tp.error_count > 0 /\ tp.abort_on_error
        THEN [w |-> out.w, tp |-> log_error(out.tp), val |-> FALSE]
        ELSE [w |-> out.w, tp |-> out.tp, val |-> TRUE]

finalize(w, tp, fmt, order) ==
    IF tp.error_count > 0 /\ tp.abort_on_error
    THEN [w |-> w, tp |-> log_error(tp), val |-> FALSE]
    ELSE LET out == IF fmt = "update" THEN write_as_update(w, tp, order)
                    ELSE IF fmt = "delete" THEN write_as_delete(w, tp, order)
                    ELSE write_serialized(w, tp)
         IN  [w |-> out.w, tp |-> out.tp, val |-> TRUE]

(***************************************************************************)
(* 8. Specification documents and records                                  *)
(***************************************************************************)
Object(m) == [t |-> "object", v |-> m]

NS == "ex" :> "http://example.com/"

Globals == "$datasetID" :> Str("d")

NoSpecs == [k \in {} |-> NoneV]

\* requires filters of each form: a list, null, the empty string, a value
FilterSpec ==
    MapperSpec(Globals, NS, <<>>,
        << ResourceSpec(Str("listed"), NoneV, FALSE,
               << <<"@id", Str("<ex:{id}>")>>, <<"<rdfs:label>", Str("{label}")>> >>,
               MapV("id" :> ListV(<<Str("123"), Str("789")>>)), NoneV),
           ResourceSpec(Str("present"), NoneV, FALSE,
               << <<"@id", Str("<ex:p{id}>")>> , <<"<ex:kind>", Str("{kind}")>> >>,
               MapV("label" :> NoneV), NoneV),
           ResourceSpec(Str("blank"), NoneV, FALSE,
               << <<"@id", Str("<ex:b{id}>")>> , <<"<ex:kind>", Str("{kind}")>> >>,
               MapV("label" :> Str("")), NoneV),
           ResourceSpec(Str("same"), NoneV, FALSE,
               << <<"@id", Str("<ex:s{id}>")>> , <<"<ex:kind>", Str("{kind}")>> >>,
               MapV(("kind" :> Str("a")) @@ ("id" :> NoneV)), NoneV),
           ResourceSpec(Str("unlisted"), NoneV, FALSE,
               << <<"@id", Str("<ex:u{id}>")>> , <<"<ex:kind>", Str("{kind}")>> >>,
               NoneV, MapV("id" :> ListV(<<Str("123"), Str("789")>>))),
           ResourceSpec(Str("unlabelled"), NoneV, FALSE,
               << <<"@id", Str("<ex:n{id}>")>> , <<"<ex:kind>", Str("{kind}")>> >>,
               NoneV, MapV("label" :> NoneV)),
           ResourceSpec(Str("other"), NoneV, FALSE,
               << <<"@id", Str("<ex:o{id}>")>> , <<"<ex:kind>", Str("{kind}")>> >>,
               NoneV, MapV(("kind" :> Str("a")) @@ ("label" :> Str("")))) >>,
        NoSpecs, NoSpecs, NoSpecs, FALSE)

FilterRows ==
    { ("id" :> Str("123")) @@ ("label" :> Str("one")) @@ ("kind" :> Str("a")),
      ("id" :> Str("456")) @@ ("label" :> Str("")) @@ ("kind" :> Str("b")),
      ("id" :> Str("789")) @@ ("kind" :> Str("a")) }

\* implicit declarations: a one-off and a resource with no @type, a property
\* spec, a short property name, the same names again in a named graph
DeclareSpec ==
    MapperSpec(Globals, NS,
        << Resource("Source", << <<"@id", Str("<ex:source>")>>,
                                 <<"title", Str("Source")>> >>) >>,
        << Resource("Person", << <<"@id", Str("<ex:{id}>")>>,
                                 <<":age", Str("{age}")>>,
                                 <<"nick", Str("{nick}")>> >>),
           ResourceSpec(Str("Person"), Str("<ex:g1>"), FALSE,
               << <<"@id", Str("<ex:n{id}>")>>,
                  <<":age", Str("{age}")>>,
                  <<"title", Str("{nick}")>> >>,
               NoneV, NoneV) >>,
        NoSpecs,
        "age" :> PropSpec("age", "<ex:age>", Str("Int"), NoneV, FALSE, NoneV),
        NoSpecs, TRUE)

DeclareRows ==
    { ("id" :> Str("1")) @@ ("age" :> Str("30")) @@ ("nick" :> Str("al")),
      ("id" :> Str("2")) @@ ("age" :> Str("old")),
      ("id" :> Str("3")) @@ ("nick" :> Str("cy")) }

\* reconcile with a type written as a full URI and with one written as a CURIE
ReconcileSpec ==
    MapperSpec(Globals @@ ("$reconciliationAPI" :> Str("http://recon.example/api")), NS, <<>>,
        << Resource("Item", <<
               <<"@id", Str("<ex:{id}>")>>,
               <<"<ex:ref>", Str("{k | reconcile('ref','http://example.com/T')}")>>,
               <<"<ex:cref>", Str("{c | reconcile('cref','skos:Concept')}")>> >>) >>,
        NoSpecs, NoSpecs, NoSpecs, FALSE)

ReconcileRows ==
    { ("id" :> Str("1")) @@ ("k" :> Str("k1")),
      ("id" :> Str("2")) @@ ("c" :> Str("k1")) }

\* autoCV with a vocabulary name, and with none so that the property names it
VocabSpec ==
    MapperSpec(Globals, NS, <<>>,
        << Resource("Thing", <<
               <<"@id", Str("<ex:{id}>")>>,
               <<"<ex:colour>", Str("{colour | autoCV('colours')}")>>,
               <<"<ex:shape>", Str("{shape | autoCV('')}")>> >>) >>,
        NoSpecs, NoSpecs, NoSpecs, FALSE)

VocabRows ==
    { ("id" :> Str("1")) @@ ("colour" :> Str("Red")),
      ("id" :> Str("2")) @@ ("shape" :> Str("Round")),
      ("id" :> Str("3")) @@ ("colour" :> Str("Red")) @@ ("shape" :> Str("Round")) }

\* properties that fail in each way: a missing value, a transform function
\* handed a value of the wrong type, an unknown property spec, an unknown
\* function, a template that is neither text nor map nor list, a missing @id
ErrorSpec ==
    MapperSpec(Globals, NS, <<>>,
        << Resource("Plain", << <<"@id", Str("<ex:{id}>")>>,
                                <<"<ex:name>", Str("{name}")>>,
                                <<":nosuch", Str("{name}")>>,
                                <<"<ex:size>", Str("{size | asInt}")>>,
                                <<"<ex:upper>", Str("{name | upper}")>>,
                                <<"<ex:tail>", Str("{name}")>> >>),
           Resource("Trimmed", << <<"@id", Str("<ex:t{name}>")>>,
                                  <<"<ex:first>", Str("{name}")>>,
                                  <<"<ex:size>", Str("{size | trim}")>>,
                                  <<"<ex:last>", Str("{name}")>> >>),
           ResourceSpec(Str("Called"), NoneV, FALSE,
                        << <<"@id", Str("<ex:c{name}>")>>,
                           <<"<ex:first>", Str("{name}")>>,
                           <<"<ex:code>", Str("{code | nosuch('x')}")>> >>,
                        MapV("code" :> NoneV), NoneV),
           ResourceSpec(Str("Shaped"), NoneV, FALSE,
                        << <<"@id", Str("<ex:s{name}>")>>,
                           <<"<ex:first>", Str("{name}")>>,
                           <<"<ex:shape>", IntV(5)>> >>,
                        MapV("shape" :> NoneV), NoneV) >>,
        NoSpecs, NoSpecs, NoSpecs, FALSE)

ErrorRows ==
    { ("id" :> Str("1")) @@ ("name" :> Str("ann")) @@ ("size" :> Str(" 7 ")),
      ("id" :> Str("2")) @@ ("name" :> Str("bob")) @@ ("size" :> IntV(7))
          @@ ("code" :> Str("c")),
      ("id" :> Str("3")) @@ ("name" :> Str("cat")) @@ ("size" :> Str("big"))
          @@ ("shape" :> Str("s")),
      ("name" :> Str("dan")) }

\* a one-off with no name, which the constructor counts as an error
NamelessSpec ==
    MapperSpec(Globals, NS,
        << ResourceSpec(Str(""), NoneV, FALSE,
                        << <<"@id", Str("<ex:source>")>> >>, NoneV, NoneV) >>,
        << Resource("Plain", << <<"@id", Str("<ex:{id}>")>>,
                                <<"<ex:name>", Str("{name}")>> >>) >>,
        NoSpecs, NoSpecs, NoSpecs, FALSE)

NamelessRows ==
    { ("id" :> Str("1")) @@ ("name" :> Str("ann")),
      ("name" :> Str("dan")) }

\* a graph replaced by each run, a preserved graph, the default graph
GraphSpec ==
    MapperSpec(Globals, NS, <<>>,
        << ResourceSpec(Str("Base"), Str("<ex:base>"), FALSE,
               << <<"@id", Str("<ex:{id}>")>>, <<"<rdfs:label>", Str("{label}")>> >>,
               MapV("label" :> NoneV), NoneV),
           ResourceSpec(Str("Current"), Str("<ex:current>"), TRUE,
               << <<"@id", Str("<ex:{id}>")>>, <<"<ex:value>", Str("{value}")>> >>,
               MapV("value" :> NoneV), NoneV),
           ResourceSpec(Str("Plain"), NoneV, FALSE,
               << <<"@id", Str("<ex:{id}>")>>, <<"<ex:note>", Str("{note}")>> >>,
               MapV("note" :> NoneV), NoneV) >>,
        NoSpecs, NoSpecs, NoSpecs, FALSE)

GraphRows ==
    { ("id" :> Str("1")) @@ ("label" :> Str("one")),
      ("id" :> Str("2")) @@ ("value" :> Str("v")),
      ("id" :> Str("3")) @@ ("note" :> Str("n")),
      ("id" :> Str("4")) @@ ("value" :> Str("")) @@ ("label" :> Str("four")) }

\* property specs marked required and not, each on a variable and on a
\* back-reference to a resource that is never produced
RequiredSpec ==
    MapperSpec(Globals, NS, <<>>,
        << Resource("Item", << <<"@id", Str("<ex:{id}>")>>,
                               <<":opt", Str("{opt}")>>,
                               <<":req", Str("{req}")>>,
                               <<":optref", Str("<::Nothing>")>>,
                               <<":reqref", Str("<::Nothing>")>>,
                               <<"<ex:tail>", Str("{id}")>> >>) >>,
        NoSpecs,
        ("opt" :> PropSpec("opt", "<ex:opt>", NoneV, NoneV, FALSE, NoneV))
        @@ ("req" :> PropSpec("req", "<ex:req>", NoneV, NoneV, TRUE, NoneV))
        @@ ("optref" :> PropSpec("optref", "<ex:optref>", NoneV, NoneV, FALSE, NoneV))
        @@ ("reqref" :> PropSpec("reqref", "<ex:reqref>", NoneV, NoneV, TRUE, NoneV)),
        NoSpecs, FALSE)

RequiredRows ==
    { ("id" :> Str("1")) @@ ("opt" :> Str("o")) @@ ("req" :> Str("r")),
      ("id" :> Str("2")),
      ("id" :> Str("3")) @@ ("opt" :> Str("")) @@ ("req" :> Str("")) }

\* one-offs, templates that share a name, a template without a name, a nested
\* template, an embedded template that a property refers to and one that none
\* refers to, identifiers made from the parent and from the row
OrderSpec ==
    MapperSpec(Globals, NS,
        << Resource("Source", << <<"@id", Str("<ex:source>")>> >>),
           Resource("Root", << <<"@id", Str("<parent>")>> >>),
           Resource("Rowless", << <<"@id", Str("<row>")>> >>) >>,
        << Resource("First", << <<"@id", Str("<ex:f{id}>")>>,
                                <<"<ex:src>", Str("<::Source>")>>,
                                <<"<ex:later>", Str("<::Second>")>>,
                                <<"<ex:before>", Str("{$resourceID}")>>,
                                <<"<ex:part>",
                                  MapV(Resource("Part", << <<"@id", Str("<parent>")>>,
                                                           <<"<ex:of>", Str("{$parentID}")>> >>))>>,
                                <<"<ex:after>", Str("{$resourceID}")>>,
                                <<"<ex:up>", Str("{$parentID}")>> >>),
           Resource("", << <<"@id", Str("<ex:nameless>")>> >>),
           Resource("Second", << <<"@id", Str("<parent>")>>,
                                 <<"<ex:prev>", Str("<::First>")>>,
                                 <<"<ex:inner>", Str("{sub | map_to('Inner')}")>>,
                                 <<"<ex:after>", Str("{$resourceID}")>>,
                                 <<"<ex:up>", Str("{$parentID}")>> >>),
           Resource("First", << <<"@id", Str("<ex:g{id}>")>> >>),
           Resource("Last", << <<"@id", Str("<ex:l{id}>")>>,
                               <<"<ex:prev>", Str("<::First>")>> >>) >>,
        ("Inner" :> Resource("Inner", << <<"@id", Str("<parent>")>>,
                                         <<"<ex:of>", Str("{$parentID}")>> >>))
        @@ ("Unused" :> Resource("Unused", << <<"@id", Str("<ex:unused>")>> >>)),
        NoSpecs, NoSpecs, FALSE)

OrderRows ==
    { ("id" :> Str("1")),
      ("id" :> Str("2")) @@ ("sub" :> Object("x" :> Str("y"))) }

\* a template with a graph between two without one; inside it a nested
\* template with a graph of its own and an embedded template without
ScopeSpec ==
    MapperSpec(Globals, NS, <<>>,
        << Resource("Before", << <<"@id", Str("<ex:b{id}>")>>,
                                 <<"<ex:note>", Str("b")>> >>),
           ResourceSpec(Str("Graphed"), Str("<ex:g>"), FALSE,
               << <<"@id", Str("<ex:x{id}>")>>,
                  <<"<ex:first>", Str("x")>>,
                  <<"<ex:in>",
                    MapV(ResourceSpec(Str("Nested"), Str("<ex:h>"), FALSE,
                             << <<"@id", Str("<ex:y{id}>")>>,
                                <<"<ex:note>", Str("y")>> >>,
                             NoneV, NoneV))>>,
                  <<"<ex:emb>", Str("{sub | map_to('Inner')}")>>,
                  <<"<ex:note>", Str("x")>> >>,
               NoneV, NoneV),
           Resource("After", << <<"@id", Str("<ex:z{id}>")>>,
                                <<"<ex:note>", Str("z")>> >>) >>,
        "Inner" :> Resource("Inner", << <<"@id", Str("<ex:i{id}>")>>,
                                        <<"<ex:note>", Str("i")>> >>),
        NoSpecs, NoSpecs, FALSE)

ScopeRows ==
    { ("id" :> Str("1")),
      ("id" :> Str("2")) @@ ("sub" :> Object("x" :> Str("y"))) }

\* a key with and without the ^ prefix, on a single value and on a list of
\* values, and a ^ key that names a property spec
InverseSpec ==
    MapperSpec(Globals, NS, <<>>,
        << Resource("Item", << <<"@id", Str("<ex:{id}>")>>,
                               <<"<ex:fwd>", Str("<ex:coll>")>>,
                               <<"^<ex:inv>", Str("<ex:coll>")>>,
                               <<"<ex:fwds>", Str("{tags | splitComma}")>>,
                               <<"^<ex:invs>", Str("{tags | splitComma}")>>,
                               <<"^:member", Str("<ex:coll>")>> >>) >>,
        NoSpecs,
        "member" :> PropSpec("member", "<ex:member>", NoneV, NoneV, FALSE, NoneV),
        NoSpecs, FALSE)

InverseRows ==
    { ("id" :> Str("1")) @@ ("tags" :> Str("a,b")),
      ("id" :> Str("2")) @@ ("tags" :> Str("c")),
      ("id" :> Str("3")) }

\* a reference inside text and the same reference as the whole template
PatternSpec ==
    MapperSpec(Globals, NS, <<>>,
        << Resource("Item", << <<"@id", Str("<ex:{id}>")>>,
                               <<"<ex:mixed>", Str("a-{x}-b{id}")>>,
                               <<"<ex:whole>", Str("{x}")>>,
                               <<"<ex:tail>", Str("{id}")>> >>) >>,
        NoSpecs, NoSpecs, NoSpecs, FALSE)

PatternRows ==
    { ("id" :> Str("1")) @@ ("x" :> Str("v")),
      ("id" :> Str("2")),
      ("id" :> Str("3")) @@ ("x" :> Str("")) }

\* an identifier that is the digest of two values and a property that is the
\* digest of the same two in the other order
HashSpec ==
    MapperSpec(Globals, NS, <<>>,
        << Resource("Item", << <<"@id", Str("<hash(a,b)>")>>,
                               <<"<ex:rev>", Str("<hash(b,a)>")>> >>) >>,
        NoSpecs, NoSpecs, NoSpecs, FALSE)

HashRows ==
    { ("a" :> Str("x")) @@ ("b" :> Str("y")),
      ("a" :> Str("y")) @@ ("b" :> Str("x")),
      ("a" :> Str("x")) @@ ("b" :> Str("xx")) }

\* reconcile with no endpoint at all, and twice on the same key and type with
\* placeholders switched off
LookupSpec ==
    MapperSpec(Globals, NS, <<>>,
        << Resource("Item", <<
               <<"@id", Str("<ex:{id}>")>>,
               <<"<ex:noapi>", Str("{k | reconcile('noapi','http://example.com/N')}")>>,
               <<"<ex:skip>",
                 Str("{k | reconcile('skip','http://example.com/T','http://recon.example/api',[],True)}")>>,
               <<"<ex:again>",
                 Str("{k | reconcile('again','http://example.com/T','http://recon.example/api',[],True)}")>>,
               <<"<ex:tail>", Str("{id}")>> >>) >>,
        NoSpecs, NoSpecs, NoSpecs, FALSE)

LookupRows == { ("id" :> Str("1")) @@ ("k" :> Str("k1")) }

\* the answers to a lookup that the lookup document is run against
Replies == {"match1", "possible", "error", "none", "extra"}

\* a property whose template is a list of three templates
ListSpec ==
    MapperSpec(Globals, NS, <<>>,
        << Resource("Item", << <<"@id", Str("<ex:{id}>")>>,
                               <<"<ex:vals>", ListV(<<Str("{a}"), Str("{c | asInt}"),
                                                      Str("{b}")>>)>>,
                               <<"<ex:tail>", Str("{id}")>> >>) >>,
        NoSpecs, NoSpecs, NoSpecs, FALSE)

ListRows ==
    { ("id" :> Str("1")) @@ ("a" :> Str("a")) @@ ("b" :> Str("b")) @@ ("c" :> Str("5")),
      ("id" :> Str("2")) @@ ("a" :> Str("a")) @@ ("b" :> Str("b")),
      ("id" :> Str("3")) @@ ("b" :> Str("b")) @@ ("c" :> Str("x")),
      ("id" :> Str("4")) @@ ("a" :> Str("a")) @@ ("b" :> Str("b"))
                         @@ ("c" :> Object("n" :> Str("5"))) }

(***************************************************************************)
(* 9. A run: construction, records one at a time, finalize                 *)
(***************************************************************************)
VARIABLES
    input,      \* the specification document of the run
    w,          \* the heap
    tp,         \* the TemplateProcessor
    phase,      \* "rows" until finalize is called, then "done"; "failed" if
                \* the constructor raised
    result,     \* the format finalize was called with and what it returned
    rowlog,     \* per record: whether it failed, the statements it added
    handles,    \* the TemplateState objects a caller of the class holds
    parents     \* handles[i] is the child of handles[parents[i]], 0 for none

vars == <<input, w, tp, phase, result, rowlog, handles, parents>>

MaxRows == 2

Inputs == {"filter", "declare", "reconcile", "vocab", "error", "nameless", "graph",
           "required", "order", "scope"}

\* a resource whose name has the form of the key of a vocabulary entry, and
\* two vocabularies of which one name continues the other
KeysSpec ==
    MapperSpec(Globals, NS, <<>>,
        << Resource("Thing", <<
               <<"@id", Str("<ex:t{id}>")>>,
               <<"<ex:colour>", Str("{colour | autoCV('colours')}")>>,
               <<"<ex:long>", Str("{p | autoCV('a/b')}")>>,
               <<"<ex:short>", Str("{q | autoCV('a')}")>> >>),
           ResourceSpec(Str("colours/Red"), NoneV, FALSE,
               << <<"@id", Str("<ex:r{id}>")>> >>,
               MapV("colour" :> Str("Red")), NoneV) >>,
        NoSpecs, NoSpecs, NoSpecs, FALSE)

KeysRows ==
    { ("id" :> Str("1")) @@ ("colour" :> Str("Red")),
      ("id" :> Str("2")) @@ ("colour" :> Str("Blue")),
      ("id" :> Str("3")) @@ ("p" :> Str("c")) @@ ("q" :> Str("b/c")) }

\* two templates that write to one graph, the first with the preserve flag
\* and the second without it; between them a template with a preserved graph
\* of its own whose identifier needs a value some records lack; every one
\* behind a filter, and a template with neither graph nor filter at the end
PreserveSpec ==
    MapperSpec(Globals, NS, <<>>,
        << ResourceSpec(Str("Keep"), Str("<ex:shared>"), TRUE,
               << <<"@id", Str("<ex:k{id}>")>>, <<"<ex:v>", Str("{k}")>> >>,
               MapV("k" :> NoneV), NoneV),
           ResourceSpec(Str("Broken"), Str("<ex:broken>"), TRUE,
               << <<"@id", Str("<ex:b{m}>")>>, <<"<ex:v>", Str("{b}")>> >>,
               MapV("b" :> NoneV), NoneV),
           ResourceSpec(Str("Loose"), Str("<ex:shared>"), FALSE,
               << <<"@id", Str("<ex:l{id}>")>>, <<"<ex:v>", Str("{l}")>> >>,
               MapV("l" :> NoneV), NoneV),
           Resource("Tail", << <<"@id", Str("<ex:t{id}>")>>,
                               <<"<ex:broken>", Str("<::Broken>")>> >>) >>,
        NoSpecs, NoSpecs, NoSpecs, FALSE)

PreserveRows ==
    { ("id" :> Str("1")) @@ ("k" :> Str("x")) @@ ("l" :> Str("y")),
      ("id" :> Str("2")) @@ ("b" :> Str("z")) @@ ("m" :> Str("m")),
      ("id" :> Str("3")) @@ ("b" :> Str("z")) @@ ("l" :> Str("y")),
      ("id" :> Str("4")) @@ ("l" :> Str("y")) }

Document(name) ==
    CASE name = "filter"    -> [spec |-> FilterSpec,    rows |-> FilterRows]
      [] name = "declare"   -> [spec |-> DeclareSpec,   rows |-> DeclareRows]
      [] name = "reconcile" -> [spec |-> ReconcileSpec, rows |-> ReconcileRows]
      [] name = "vocab"     -> [spec |-> VocabSpec,     rows |-> VocabRows]
      [] name = "error"     -> [spec |-> ErrorSpec,     rows |-> ErrorRows]
      [] name = "nameless"  -> [spec |-> NamelessSpec,  rows |-> NamelessRows]
      [] name = "graph"     -> [spec |-> GraphSpec,     rows |-> GraphRows]
      [] name = "required"  -> [spec |-> RequiredSpec,  rows |-> RequiredRows]
      [] name = "order"     -> [spec |-> OrderSpec,     rows |-> OrderRows]
      [] name = "scope"     -> [spec |-> ScopeSpec,     rows |-> ScopeRows]
      [] name = "inverse"   -> [spec |-> InverseSpec,   rows |-> InverseRows]
      [] name = "pattern"   -> [spec |-> PatternSpec,   rows |-> PatternRows]
      [] name = "hash"      -> [spec |-> HashSpec,      rows |-> HashRows]
      [] name = "lookup"    -> [spec |-> LookupSpec,    rows |-> LookupRows]
      [] name = "list"      -> [spec |-> ListSpec,      rows |-> ListRows]
      [] name = "keys"      -> [spec |-> KeysSpec,      rows |-> KeysRows]
      [] name = "preserve"  -> [spec |-> PreserveSpec,  rows |-> PreserveRows]

\* the answers of the service that matter to a document
Answers(name) ==
    IF name = "reconcile" THEN Responses ELSE IF name = "lookup" THEN Replies ELSE {"error"}

Formats == {"update", "delete", "trig"}

\* the orders in which Dataset.graphs() can hand out the graphs
RECURSIVE Orders(_)
Orders(S) ==
    IF S = {} THEN {<<>>}
    ELSE UNION {{<<g>> \o o : o \in Orders(S \ {g})} : g \in S}

\* what is left of the heap when a call has returned: the two maps of the
\* specification, the map of the processor, the one backlinks table
collect(h) ==
    [h EXCEPT !.scopes = SubSeq(@, 1, 3), !.backlinks = SubSeq(@, 1, 1),
              !.oracle = "error"]

NoResult == [fmt |-> "", val |-> FALSE]

Init ==
    /\ input \in Inputs
    /\ \E abort_on_error \in BOOLEAN :
         \E c \in {TemplateProcessor(World(Document(input).spec), "file", abort_on_error)} :
             /\ w = collect(c.w)
             /\ tp = c.val
             /\ phase = IF c.exc = "" THEN "rows" ELSE "failed"
    /\ result = NoResult
    /\ rowlog = <<>>
    /\ handles = <<>>
    /\ parents = <<>>

\* mapper.py reads one record and calls process_row
ProcessRow ==
    /\ phase = "rows"
    /\ tp.row < MaxRows
    /\ \E data \in Document(input).rows, answer \in Answers(input) :
         \E d \in {loads([w EXCEPT !.oracle = answer], data)} :
         \E r \in {process_row(d.w, tp, d.val)} :
             /\ w' = collect(r.w)
             /\ tp' = r.tp
             /\ rowlog' = Append(rowlog,
                    [data   |-> data,
                     answer |-> answer,
                     failed |-> r.tp.error_count > tp.error_count,
                     added  |-> r.w.datasets[tp.dataset].quads
                                    \ w.datasets[tp.dataset].quads])
    /\ UNCHANGED <<input, phase, result, handles, parents>>

\* mapper.py calls finalize once, after the last record
Finalize ==
    /\ phase = "rows"
    /\ \E fmt \in Formats, order \in Orders(graphs(w, tp)) :
         \E f \in {finalize(w, tp, fmt, order)} :
             /\ w' = f.w
             /\ tp' = f.tp
             /\ result' = [fmt |-> fmt, val |-> f.val]
    /\ phase' = "done"
    /\ UNCHANGED <<input, rowlog, handles, parents>>

Next == ProcessRow \/ Finalize

Spec == Init /\ [][Next]_vars

\* runs over the documents about the values of a property
ValueInputs == {"inverse", "pattern", "hash", "lookup", "list", "keys", "preserve"}

ValueInit ==
    /\ input \in ValueInputs
    /\ \E abort_on_error \in BOOLEAN :
         \E c \in {TemplateProcessor(World(Document(input).spec), "file", abort_on_error)} :
             /\ w = collect(c.w)
             /\ tp = c.val
             /\ phase = IF c.exc = "" THEN "rows" ELSE "failed"
    /\ result = NoResult
    /\ rowlog = <<>>
    /\ handles = <<>>
    /\ parents = <<>>

ValueSpec == ValueInit /\ [][Next]_vars

(***************************************************************************)
(* 10. TemplateState called directly: child, add_to_context, the record_*  *)
(*     methods, switch_to_graph and add_to_graph on the states a caller    *)
(*     holds                                                               *)
(***************************************************************************)
MaxHandles == 3

\* the dict display a caller hands to child
Bindings == "k" :> Str("a")

StateInit ==
    /\ input = "graph"
    /\ \E c \in {TemplateProcessor(World(Document(input).spec), "file", FALSE)} :
           /\ w = collect(c.w)
           /\ tp = c.val
           /\ handles = <<c.val.state>>
    /\ phase = "rows"
    /\ result = NoResult
    /\ rowlog = <<>>
    /\ parents = <<0>>

\* c = s.child({...}): the bindings are a new dict
Child ==
    /\ Len(handles) < MaxHandles
    /\ \E s \in 1..Len(handles) :
         \E c \in {child_of(w, handles[s], Bindings)} :
             /\ w' = c.w
             /\ handles' = Append(handles, c.val)
             /\ parents' = Append(parents, s)
    /\ UNCHANGED <<input, tp, phase, result, rowlog>>

\* c = s.child(b) for a dict b that exists already
ChildOf ==
    /\ Len(handles) < MaxHandles
    /\ \E s \in 1..Len(handles), b \in 1..Len(w.scopes) :
         \E c \in {child(w, handles[s], b)} :
             /\ w' = c.w
             /\ handles' = Append(handles, c.val)
             /\ parents' = Append(parents, s)
    /\ UNCHANGED <<input, tp, phase, result, rowlog>>

AddToContext ==
    /\ \E c \in 1..Len(handles) : w' = add_to_context(w, handles[c], "k", Str("b"))
    /\ UNCHANGED <<input, tp, phase, result, rowlog, handles, parents>>

RecordAutoCV ==
    /\ \E c \in 1..Len(handles) :
         w' = record_auto_cv(w, handles[c], "cv", "label", URIRef("http://example.com/c"))
    /\ UNCHANGED <<input, tp, phase, result, rowlog, handles, parents>>

RecordReconcile ==
    /\ \E c \in 1..Len(handles) :
         w' = record_reconcile_request(w, handles[c],
                  ReconciliationRecord("key", NoneV, URIRef("http://example.com/r")))
    /\ UNCHANGED <<input, tp, phase, result, rowlog, handles, parents>>

SwitchToGraph ==
    /\ Len(handles) < MaxHandles
    /\ \E s \in 1..Len(handles) :
         \E c \in {switch_to_graph(w, handles[s], "http://example.com/g", TRUE)} :
             /\ w' = c.w
             /\ handles' = Append(handles, c.val)
             /\ parents' = Append(parents, s)
    /\ UNCHANGED <<input, tp, phase, result, rowlog>>

AddToGraph ==
    /\ \E c \in 1..Len(handles) :
         w' = add_to_graph(w, handles[c],
                  <<URIRef("http://example.com/s"), URIRef("http://example.com/p"),
                    Literal("o", "", "")>>).w
    /\ UNCHANGED <<input, tp, phase, result, rowlog, handles, parents>>

\* a second run in the same process: another TemplateProcessor, constructed
\* while the objects of the earlier run still exist
NewRun ==
    /\ Len(handles) < MaxHandles
    /\ \E c \in {TemplateProcessor(w, "file", FALSE)} :
         /\ w' = c.w
         /\ tp' = c.val
         /\ handles' = Append(handles, c.val.state)
         /\ parents' = Append(parents, 0)
    /\ UNCHANGED <<input, phase, result, rowlog>>

StateNext ==
    \/ NewRun
    \/ Child
    \/ ChildOf
    \/ AddToContext
    \/ RecordAutoCV
    \/ RecordReconcile
    \/ SwitchToGraph
    \/ AddToGraph

StateSpec == StateInit /\ [][StateNext]_vars

(***************************************************************************)
(* 10b. Merging and importing specifications: merge and _load_imports on   *)
(*      small modules; handles holds the last operation, its operands and  *)
(*      its result                                                         *)
(***************************************************************************)
MaxImports == 2

MaxOneOffs == 3

ModuleNames == {"a", "b"}

Shapes == {"own", "based"}

\* a module named L: every keyed category has an entry under the module's own
\* name; a based module also has an entry under "k" in every category and
\* declares $datasetBase.  Every value carries the name of the module that
\* declares it.
Module(L, shape) ==
    LET uri == "http://" \o L \o "/"
        k(x) == IF shape = "own" THEN (L :> x) ELSE (L :> x) @@ ("k" :> x)
        named(f) == [n \in DOMAIN k(L) |-> f[n]]
    IN  MapperSpec(IF shape = "based" THEN k(Str(L)) @@ ("$datasetBase" :> Str(uri))
                   ELSE k(Str(L)),
                   k(uri),
                   << Resource(L, << <<"@id", Str("<" \o uri \o "one>")>> >>) >>,
                   << Resource("Row", << <<"@id", Str("<" \o uri \o "{id}>")>> >>) >>,
                   [n \in DOMAIN k(L) |->
                       Resource(n, << <<"@id", Str("<" \o uri \o "{id}>")>> >>)],
                   [n \in DOMAIN k(L) |->
                       PropSpec(n, "<" \o uri \o "p>", NoneV, NoneV, FALSE, NoneV)],
                   k("x" :> Str(L)),
                   FALSE)

Modules == { Module(L, shape) : L \in ModuleNames, shape \in Shapes }

\* sequences of modules of length n
RECURSIVE ImportLists(_)
ImportLists(n) ==
    IF n = 0 THEN {<<>>}
    ELSE { Append(l, m) : l \in ImportLists(n - 1), m \in Modules }

LoadInit ==
    /\ input = "load"
    /\ \E c \in {TemplateProcessor(World(EmptyMapperSpec), "file", FALSE)} :
           /\ w = collect(c.w)
           /\ tp = c.val
    /\ handles = <<>>
    /\ phase = "rows"
    /\ result = NoResult
    /\ rowlog = <<>>
    /\ parents = <<>>

\* the specifications at hand: the modules and the result of the last operation
Operands == Modules \cup { handles[i].spec : i \in 1..Len(handles) }

\* m = a.merge(b)
Merge ==
    /\ \E a \in Operands, b \in Operands :
         /\ Len(a.one_offs) + Len(b.one_offs) <= MaxOneOffs
         /\ \E m \in {merge(a, b)} :
              handles' = << [op |-> "merge", self |-> a, modules |-> <<b>>, spec |-> m,
                             context |-> <<m.globals, builtins>>] >>
    /\ UNCHANGED <<input, w, tp, phase, result, rowlog, parents>>

\* loading a specification whose "imports" lists up to MaxImports modules
LoadImports ==
    /\ \E self \in Modules, n \in 0..MaxImports :
         \E modules \in ImportLists(n) :
           \E l \in {load_imports(self, modules)} :
              handles' = << [op |-> "load", self |-> self, modules |-> modules,
                             spec |-> l.spec, context |-> l.context] >>
    /\ UNCHANGED <<input, w, tp, phase, result, rowlog, parents>>

LoadNext ==
    \/ Merge
    \/ LoadImports

LoadSpec == LoadInit /\ [][LoadNext]_vars

(***************************************************************************)
(* 11. Properties                                                          *)
(***************************************************************************)
\* the positions of the log with an event of one kind
Logged(kind) == {p \in 1..Len(w.ev) : w.ev[p].e = kind}

\* the positions of the log that record i of the run wrote
RowEvents(i) ==
    {p \in 1..Len(w.ev) :
        /\ \E r \in Logged("row") : r < p /\ w.ev[r].x = IntV(i)
        /\ ~\E r \in Logged("row") : r <= p /\ w.ev[r].x = IntV(i + 1)}

quads == w.datasets[tp.dataset].quads

Preserved == w.preserved[tp.state.preserved_graphs]

\* the lines of the output with one instruction for graph g
Lines(op, g) ==
    {p \in 1..Len(tp.output) : tp.output[p].op = op /\ tp.output[p].graph = g}

\* C1: with implicit declaration the declaration of a class name or of a
\* property name is emitted at most once in a run: record_auto_emit answers
\* "not yet known" at most once for a kind and name, whatever record or graph
\* the name comes up in again
ImplicitDeclaredOnce ==
    \A i, j \in Logged("implicit") :
        (w.ev[i].a = w.ev[j].a /\ w.ev[i].b = w.ev[j].b) => i = j

\* two records, and the resource name Person applied in the default graph and
\* in a named graph, after its class was declared
ImplicitDeclaredOnceWitness ==
    /\ tp.row = 2
    /\ \E i \in Logged("implicit") : w.ev[i].a = "class" /\ w.ev[i].b = "Person"
    /\ \E i \in Logged("implicit") : w.ev[i].a = "prop"
    /\ Cardinality({j \in Logged("resource") : w.ev[j].a = "Person"}) >= 3
    /\ Cardinality({q[1] : q \in quads}) >= 2

\* C2: once reconcile(key, type) has resolved an identifier, every later
\* reconcile with the same key and type returns that identifier and sends no
\* request to the service
ReconcileCached ==
    \A i \in Logged("reconciled") : \A j \in (i + 1)..Len(w.ev) :
        /\ (w.ev[j].e = "reconciled" /\ w.ev[j].a = w.ev[i].a /\ w.ev[j].b = w.ev[i].b)
               => w.ev[j].x = w.ev[i].x
        /\ ~(/\ w.ev[j].e = "lookup"
             /\ w.ev[j].a = w.ev[i].a
             /\ w.ev[j].b = expand_curi(w.ev[i].b, w.spec.namespaces))

\* C3: autoCV on the same label under the same vocabulary name creates the
\* concept once and the scheme of the vocabulary once, and every application
\* returns the identifier created the first time
AutoCVOnce ==
    /\ \A i, j \in Logged("cv_concept") :
           (w.ev[i].a = w.ev[j].a /\ w.ev[i].b = w.ev[j].b) => i = j
    /\ \A i, j \in Logged("cv_scheme") : w.ev[i].a = w.ev[j].a => i = j
    /\ \A i, j \in Logged("cv_ret") :
           (w.ev[i].a = w.ev[j].a /\ w.ev[i].b = w.ev[j].b) => w.ev[i].x = w.ev[j].x

\* C4: after c = s.child(b), c.add_to_context(k, v) leaves s.get(k) as it was,
\* and c and s hold the same backlinks table, reconcile cache, preserved-graph
\* set and dataset
ChildFrame ==
    [][/\ \A c \in 1..Len(handles) :
            (/\ parents[c] # 0
             /\ handles' = handles
             /\ w' = add_to_context(w, handles[c], "k", Str("b")))
            => get(w', handles[parents[c]], "k") = get(w, handles[parents[c]], "k")
       /\ \A c \in 1..Len(handles') :
            parents'[c] # 0 =>
                /\ handles'[c].backlinks = handles'[parents'[c]].backlinks
                /\ handles'[c].reconcile_stack = handles'[parents'[c]].reconcile_stack
                /\ handles'[c].preserved_graphs = handles'[parents'[c]].preserved_graphs
                /\ handles'[c].dataset = handles'[parents'[c]].dataset]_vars

\* C5 as written: an error of any kind raised by a property is caught at the
\* property, so no resource fails because of a property
EveryPropertyErrorSkipped == Logged("fail_property") = {}

\* C5 as the code has it: a property that raises ValueError is skipped and the
\* loop goes on to the other properties, so that the application ends with
\* its identifier unless a later property fails it; a property that raises
\* anything else fails the resource, which its caller sees as a ValueError
PropertyErrors ==
    /\ \A i \in Logged("skip_property") :
           /\ w.ev[i].b = "ValueError"
           /\ \E j \in (i + 1)..Len(w.ev) :
                  w.ev[j].x = w.ev[i].x /\ w.ev[j].e \in {"emitted", "fail_property"}
    /\ \A i \in Logged("fail_property") :
           /\ w.ev[i].b # "ValueError"
           /\ i < Len(w.ev) =>
                  /\ w.ev[i + 1].e \in {"resource_error", "skip_property", "skip_item"}
                  /\ w.ev[i + 1].b = "ValueError"
    /\ \A i \in Logged("emitted") :
           (input = "error" /\ w.ev[i].a = "Plain") =>
               \E name \in {"ann", "bob", "cat"} :
                   {<<DEFAULT_GRAPH, w.ev[i].x, URIRef("http://example.com/" \o p),
                      Literal(name, "", "")>> : p \in {"name", "tail"}} \subseteq quads

\* a resource that skipped two properties and was emitted with the statement of
\* the property after them, and a resource that a template of no supported
\* shape failed
PropertyErrorsWitness ==
    /\ input = "error"
    /\ \E i, j \in Logged("skip_property"), k \in Logged("emitted") :
           /\ i < j /\ j < k
           /\ w.ev[i].x = w.ev[k].x /\ w.ev[j].x = w.ev[k].x
           /\ w.ev[k].a = "Plain"
           /\ <<DEFAULT_GRAPH, w.ev[k].x, URIRef("http://example.com/tail"),
                Literal("cat", "", "")>> \in quads
    /\ \E i \in Logged("fail_property") : w.ev[i].b = "NotImplementedError"

RecordFailed == \E i \in 1..Len(rowlog) : rowlog[i].failed

NamelessOneOff == \E i \in 1..Len(w.spec.one_offs) : ~Truthy(w.spec.one_offs[i].name)

\* C6 as written: with abort_on_error, finalize writes nothing and returns
\* failure if a record failed, and writes the output and returns success if
\* no record failed
AbortOnRecordFailure ==
    (phase = "done" /\ tp.abort_on_error) =>
        IF RecordFailed
        THEN result.val = FALSE /\ tp.output = <<>>
        ELSE result.val = TRUE /\ (quads # {} => tp.output # <<>>)

\* C6 as the code has it: with abort_on_error every record is processed,
\* whether an earlier one failed or not; finalize writes nothing and returns
\* failure if an error was counted, for a record that failed or for a one-off
\* without a name, and writes the output and returns success otherwise
AbortOnError ==
    /\ Len(rowlog) = tp.row
    /\ (tp.abort_on_error /\ phase # "done") => phase = "rows"
    /\ (phase = "done" /\ tp.abort_on_error) =>
           IF RecordFailed \/ NamelessOneOff
           THEN result.val = FALSE /\ tp.output = <<>>
           ELSE result.val = TRUE /\ (quads # {} => tp.output # <<>>)

\* a run that aborted after a record that failed and a later record that did
\* not, with statements in the dataset
AbortOnErrorWitness ==
    /\ phase = "done" /\ tp.abort_on_error
    /\ Len(rowlog) = 2 /\ rowlog[1].failed /\ ~rowlog[2].failed
    /\ rowlog[2].added # {}
    /\ result.val = FALSE

\* C7: without abort_on_error a record that fails is counted and skipped, the
\* records after it are processed, finalize writes and returns success, and
\* the dataset written holds every statement of the records that did not fail
\* and no statement that only a failed record made
FailedRecordsSkipped ==
    /\ Len(rowlog) = tp.row
    /\ (phase = "done" /\ ~tp.abort_on_error) =>
           /\ result.val = TRUE
           /\ \A i \in 1..Len(rowlog) :
                  IF rowlog[i].failed
                  THEN \A q \in rowlog[i].added \cap quads :
                           \E j \in 1..Len(rowlog) :
                               ~rowlog[j].failed /\ q \in rowlog[j].added
                  ELSE rowlog[i].added \subseteq quads

\* C8: in update mode a graph with no statement gets no instruction; a graph
\* with statements gets one INSERT of its statements, with a DROP of the graph
\* right before it if the graph is not preserved and no DROP if it is
UpdateInstructions ==
    (phase = "done" /\ result.fmt = "update" /\ result.val) =>
        \A g \in graphs(w, tp) :
            IF statements(w, tp, g) = {}
            THEN \A p \in 1..Len(tp.output) : tp.output[p].graph # g
            ELSE /\ Lines("DELETE", g) = {}
                 /\ \E p \in 1..Len(tp.output) :
                        /\ Lines("INSERT", g) = {p}
                        /\ tp.output[p].data = statements(w, tp, g)
                        /\ Lines("DROP", g) = IF g \in Preserved THEN {} ELSE {p - 1}

\* an update of a preserved graph and of a graph that is replaced, the default
\* graph being empty
UpdateInstructionsWitness ==
    /\ phase = "done" /\ result.fmt = "update" /\ result.val
    /\ \E g \in graphs(w, tp) : statements(w, tp, g) = {}
    /\ \E g \in Preserved : Lines("INSERT", g) # {}
    /\ \E g \in graphs(w, tp) \ Preserved : Lines("DROP", g) # {}

\* the effect of the instructions on a store of quads
RECURSIVE Apply(_, _, _)
Apply(store, lines, i) ==
    IF i > Len(lines) THEN store
    ELSE Apply(
             CASE lines[i].op = "DROP" -> {q \in store : q[1] # lines[i].graph}
               [] lines[i].op = "INSERT" ->
                      store \cup {<<lines[i].graph, t[1], t[2], t[3]>> : t \in lines[i].data}
               [] lines[i].op = "DELETE" ->
                      store \ {<<lines[i].graph, t[1], t[2], t[3]>> : t \in lines[i].data}
               [] OTHER -> store,
             lines, i + 1)

\* a statement that a preserved graph held before the run
Old(g) ==
    <<g, URIRef("http://example.com/old"), URIRef("http://example.com/value"),
      Literal("old", "", "")>>

\* C9: in delete mode a graph with no statement gets no instruction, a graph
\* with statements that is not preserved gets exactly one DROP, and a preserved
\* one gets a DELETE of exactly the statements of the run; update followed by
\* delete leaves a statement that a preserved graph held before in the store
DeleteInstructions ==
    /\ (phase = "done" /\ result.fmt = "delete" /\ result.val) =>
           \A g \in graphs(w, tp) :
               IF statements(w, tp, g) = {}
               THEN \A p \in 1..Len(tp.output) : tp.output[p].graph # g
               ELSE /\ Lines("INSERT", g) = {}
                    /\ IF g \in Preserved
                       THEN /\ Lines("DROP", g) = {}
                            /\ \E p \in 1..Len(tp.output) :
                                   /\ Lines("DELETE", g) = {p}
                                   /\ tp.output[p].data = statements(w, tp, g)
                       ELSE Cardinality(Lines("DROP", g)) = 1 /\ Lines("DELETE", g) = {}
    /\ \A g \in Preserved : \A o1, o2 \in Orders(graphs(w, tp)) :
           Old(g) \in Apply(Apply({Old(g)}, update_lines(w, tp, o1, 1), 1),
                            delete_lines(w, tp, o2, 1), 1)

\* a delete of a preserved graph and of a graph that is dropped, the default
\* graph being empty
DeleteInstructionsWitness ==
    /\ phase = "done" /\ result.fmt = "delete" /\ result.val
    /\ \E g \in graphs(w, tp) : statements(w, tp, g) = {}
    /\ \E g \in Preserved : Lines("DELETE", g) # {}
    /\ \E g \in graphs(w, tp) \ Preserved : Lines("DROP", g) # {}

\* the value a record gives to a key of a requires map
Given(data, key) == IF key \in DOMAIN data THEN data[key] ELSE NoneV

\* the resource templates of the document that have a requires map
Filtered == {n \in 1..Len(w.spec.resources) : Truthy(w.spec.resources[n].requires)}

Skipped(i, n) ==
    \E p \in RowEvents(i) :
        w.ev[p].e = "skipped" /\ w.ev[p].a = w.spec.resources[n].name.v

Emitted(i, n) ==
    \E p \in RowEvents(i) :
        w.ev[p].e = "emitted" /\ w.ev[p].a = w.spec.resources[n].name.v

\* C10 as written: a template with a requires map is applied if and only if
\* every key it lists has a value that is not null, not empty and equal to the
\* expected one (a member of it if it is a list, any value if it is null)
RequiresNonEmptyMatch ==
    \A i \in 1..Len(rowlog) : \A n \in Filtered :
        Skipped(i, n) <=>
            ~\A key \in DOMAIN w.spec.resources[n].requires.v :
                LET value    == Given(rowlog[i].data, key)
                    expected == w.spec.resources[n].requires.v[key]
                IN  /\ value # NoneV /\ value # Str("")
                    /\ \/ expected = NoneV
                       \/ expected.t = "list"
                            /\ \E x \in 1..Len(expected.v) : expected.v[x] = value
                       \/ expected.t # "list" /\ value = expected

\* C10 as the code has it: the template is applied if and only if every key
\* it lists has, when the expected value is null, a value that is not null and
\* not empty, and otherwise a value equal to the expected one (a member of it
\* if it is a list); if not, the application is skipped and raises nothing.
\* With requires {id: ["123","789"]} the records 123 and 789 get a resource
\* and the record 456 none.
RequiresMatch ==
    /\ \A i \in 1..Len(rowlog) : \A n \in Filtered :
           Skipped(i, n) <=>
               ~\A key \in DOMAIN w.spec.resources[n].requires.v :
                   LET value    == Given(rowlog[i].data, key)
                       expected == w.spec.resources[n].requires.v[key]
                   IN  \/ expected = NoneV /\ value # NoneV /\ value # Str("")
                       \/ expected # NoneV /\ expected.t = "list"
                            /\ \E x \in 1..Len(expected.v) : expected.v[x] = value
                       \/ expected # NoneV /\ expected.t # "list" /\ value = expected
    /\ input = "filter" =>
           \A i \in 1..Len(rowlog) :
               /\ ~rowlog[i].failed
               /\ Emitted(i, 1) <=> rowlog[i].data["id"] \in {Str("123"), Str("789")}
               /\ Skipped(i, 1) <=> rowlog[i].data["id"] = Str("456")

\* the record 456 skipped by the list and taken by the template that requires
\* an empty label, the record 789 taken by the list
RequiresMatchWitness ==
    /\ input = "filter" /\ Len(rowlog) = 2
    /\ rowlog[1].data["id"] = Str("456") /\ Skipped(1, 1) /\ Emitted(1, 3)
    /\ rowlog[2].data["id"] = Str("789") /\ Emitted(2, 1) /\ Skipped(2, 2)

\* the resource templates of the document that have an unless map and no
\* requires map
Excluding ==
    {n \in 1..Len(w.spec.resources) :
        Truthy(unless_of(w.spec.resources[n])) /\ ~Truthy(w.spec.resources[n].requires)}

\* C11: a template with an unless map is skipped, and raises nothing, if and
\* only if some key it lists has a value equal to the forbidden one, a member
\* of it if it is a list, or present and not empty if it is null; a template
\* none of whose keys match is applied
UnlessMatch ==
    \A i \in 1..Len(rowlog) : \A n \in Excluding :
        LET hit == \E key \in DOMAIN unless_of(w.spec.resources[n]).v :
                       LET value     == Given(rowlog[i].data, key)
                           forbidden == unless_of(w.spec.resources[n]).v[key]
                       IN  \/ forbidden = NoneV /\ value # NoneV /\ value # Str("")
                           \/ forbidden # NoneV /\ forbidden.t = "list"
                                /\ \E x \in 1..Len(forbidden.v) : forbidden.v[x] = value
                           \/ forbidden # NoneV /\ forbidden.t # "list" /\ value = forbidden
        IN  /\ Skipped(i, n) <=> hit
            /\ Emitted(i, n) <=> ~hit
            /\ input = "filter" => ~rowlog[i].failed

\* the record 456, with an empty label and kind b, taken by the templates that
\* forbid a listed id and a label and skipped by the one that forbids the empty
\* label, and the record 123 skipped by all three
UnlessMatchWitness ==
    /\ input = "filter" /\ Len(rowlog) = 2
    /\ rowlog[1].data["id"] = Str("456")
    /\ Emitted(1, 5) /\ Emitted(1, 6) /\ Skipped(1, 7)
    /\ rowlog[2].data["id"] = Str("123") /\ \A n \in Excluding : Skipped(2, n)
    /\ Cardinality(Excluding) = 3

\* record i of the run skipped property prop
SkippedProperty(i, prop) ==
    \E p \in RowEvents(i) :
        w.ev[p].e = "skip_property" /\ w.ev[p].a = prop /\ w.ev[p].b = "ValueError"

\* record i gives no value to key: none at all, or the empty string
Absent(i, key) == Given(rowlog[i].data, key) \in {NoneV, Str("")}

\* the statements of the dataset with one predicate
About(pred) == {q \in quads : q[3] = URIRef("http://example.com/" \o pred)}

Applied(kind, k) ==
    {p \in Logged("apply") : w.ev[p].b = kind /\ w.ev[p].x = IntV(k)}

\* the templates of a list that have a name
Named(templates) == {k \in 1..Len(templates) : Truthy(templates[k].name)}

\* C13 as written: every one-off is applied exactly once and every resource
\* template is applied to every record
EveryTemplateApplied ==
    phase # "failed" =>
        /\ \A k \in 1..Len(w.spec.one_offs) : Cardinality(Applied("one_off", k)) = 1
        /\ \A i \in 1..tp.row : \A n \in 1..Len(w.spec.resources) :
               Applied("resource", n) \cap RowEvents(i) # {}

\* C13 as the code has it: every one-off that has a name is applied exactly
\* once, before the first record and never by process_row; the resource
\* templates that have a name are applied to every record, once each and in
\* the order declared; a template without a name is not applied; an embedded
\* template is applied only where a property refers to it
TemplatesInOrder ==
    phase # "failed" =>
        /\ \A k \in 1..Len(w.spec.one_offs) :
               /\ Cardinality(Applied("one_off", k)) =
                      IF k \in Named(w.spec.one_offs) THEN 1 ELSE 0
               /\ \A p \in Applied("one_off", k) : \A r \in Logged("row") : p < r
        /\ \A i \in 1..tp.row : \A n \in 1..Len(w.spec.resources) :
               /\ Cardinality(Applied("resource", n) \cap RowEvents(i)) =
                      IF n \in Named(w.spec.resources) THEN 1 ELSE 0
               /\ \A m \in 1..(n - 1) :
                      \A p \in Applied("resource", m) \cap RowEvents(i),
                         q \in Applied("resource", n) \cap RowEvents(i) : p < q
        /\ \A p \in Logged("apply") :
               w.ev[p].b = "resource" => \E i \in 1..tp.row : p \in RowEvents(i)
        /\ \A p \in 1..Len(w.ev) :
               (w.ev[p].e \in {"resource", "skipped", "emitted"}
                   /\ w.ev[p].a \in DOMAIN w.spec.embedded_resources) =>
                   /\ w.ev[p].a = "Inner"
                   /\ \E i \in 1..tp.row :
                          p \in RowEvents(i) /\ "sub" \in DOMAIN rowlog[i].data

\* two records after three one-offs, the embedded template applied for the
\* second record only
TemplatesInOrderWitness ==
    /\ input = "order" /\ tp.row = 2
    /\ Len(w.spec.one_offs) = 3 /\ Named(w.spec.resources) # 1..Len(w.spec.resources)
    /\ \E p \in Logged("emitted") : w.ev[p].a = "Inner" /\ p \in RowEvents(2)
    /\ ~\E p \in Logged("emitted") : w.ev[p].a = "Inner" /\ p \in RowEvents(1)

\* the keyed categories of a specification
Categories == {"globals", "namespaces", "propertySpecs", "embedded_resources", "mappings"}

category(spec, c) ==
    CASE c = "globals" -> spec.globals
      [] c = "namespaces" -> spec.namespaces
      [] c = "propertySpecs" -> spec.propertySpecs
      [] c = "embedded_resources" -> spec.embedded_resources
      [] c = "mappings" -> spec.mappings

Merges == { i \in 1..Len(handles) : handles[i].op = "merge" }

\* C14: a.merge(b) is a new specification in which, in globals, namespaces,
\* property specs, embedded templates and mappings, a key of both a and b has
\* a's entry and a key of only one of them has that one's entry, no other key
\* appears, and the one-offs are a's followed by b's; a and b are the
\* operands as they were before the call, which merge only reads
MergePrecedence ==
    \A i \in Merges :
        LET a == handles[i].self
            b == handles[i].modules[1]
            m == handles[i].spec
        IN  /\ \A c \in Categories :
                  /\ DOMAIN category(m, c) = DOMAIN category(a, c) \cup DOMAIN category(b, c)
                  /\ \A key \in DOMAIN category(m, c) :
                        category(m, c)[key] = IF key \in DOMAIN category(a, c)
                                              THEN category(a, c)[key]
                                              ELSE category(b, c)[key]
            /\ m.one_offs = a.one_offs \o b.one_offs

\* a merge of two modules that disagree on "k" in every category and each
\* have a key the other lacks
MergePrecedenceWitness ==
    \E i \in Merges :
        LET a == handles[i].self
            b == handles[i].modules[1]
        IN  /\ \A c \in Categories :
                  /\ "k" \in DOMAIN category(a, c) \cap DOMAIN category(b, c)
                  /\ category(a, c)["k"] # category(b, c)["k"]
                  /\ DOMAIN category(a, c) \ DOMAIN category(b, c) # {}
                  /\ DOMAIN category(b, c) \ DOMAIN category(a, c) # {}
                  /\ category(handles[i].spec, c)["k"] = category(a, c)["k"]
            /\ Len(handles[i].spec.one_offs) = 2

Loads == { i \in 1..Len(handles) : handles[i].op = "load" /\ handles[i].modules # <<>> }

\* the places that define key in category c, the imports in listed order and
\* the importing specification last
RECURSIVE definers(_, _, _, _)
definers(h, c, key, i) ==
    IF i > Len(h.modules)
    THEN IF key \in DOMAIN category(h.self, c) THEN <<h.self>> ELSE <<>>
    ELSE (IF key \in DOMAIN category(h.modules[i], c) THEN <<h.modules[i]>> ELSE <<>>)
         \o definers(h, c, key, i + 1)

\* what the loaded specification exposes for key in category c: the field of
\* that name, and for globals the context that variable lookup goes through
exposed(h, c, key) ==
    {Get(category(h.spec, c), key)}
    \cup IF c = "globals" THEN {Get(Union(h.context[2], h.context[1]), key)} ELSE {}

ImportedKeys(h, c) ==
    (DOMAIN category(h.self, c)
     \cup UNION { DOMAIN category(h.modules[i], c) : i \in 1..Len(h.modules) })
    \ {"$datasetBase"}

\* C15: in a specification loaded with imports, every key of globals,
\* namespaces, property specs, mappings and embedded templates that some
\* import or the importing specification defines is exposed, by the field and
\* by the lookup context, with the entry of the last place that defines it:
\* a later import over an earlier one, the importing specification over all
ImportPrecedence ==
    \A i \in Loads : \A c \in Categories : \A key \in ImportedKeys(handles[i], c) :
        LET ds == definers(handles[i], c, key, 1)
        IN  exposed(handles[i], c, key) = {category(ds[Len(ds)], c)[key]}

\* the positions of the log where a resource called name got its identifier
Identified(name) == {p \in Logged("resource") : w.ev[p].a = name}

\* the identifier of the last resource called name before position p of the
\* log, None when there is none
LastBefore(name, p) ==
    IF \E q \in Identified(name) : q < p
    THEN w.ev[CHOOSE q \in Identified(name) :
                  q < p /\ \A r \in Identified(name) : r < p => r <= q].x
    ELSE NoneV

TemplateNames ==
    { w.spec.one_offs[k].name.v : k \in Named(w.spec.one_offs) }
    \cup { w.spec.resources[k].name.v : k \in Named(w.spec.resources) }
    \cup DOMAIN w.spec.embedded_resources

\* the predicate the order document writes a back-reference to name under
RefPred(name) ==
    CASE name = "Source" -> "src" [] name = "Second" -> "later" [] OTHER -> "prev"

Of(x) == {q \in quads : q[2] = x}

\* C17: every property of a resource R sees R's name as $resourceID and every
\* expansion nested in or embedded from a property of R sees R's identifier
\* as $parentID, also after an earlier property of R ran such an expansion.
\* In the order document First and Second write $resourceID before and after
\* a nested (First) or embedded (Second) template and $parentID after it, and
\* the nested and embedded templates take their identifier from <parent>.
ParentDuringProperties ==
    input = "order" =>
        /\ \A name \in {"First", "Second"} : \A p \in Identified(name) :
               \A q \in Of(w.ev[p].x) :
                   /\ q \in About("before") \cup About("after") => str(q[4]) = name
                   /\ q \in About("up") => str(q[4]) = str(w.ev[p].x)
        /\ \A p \in Identified("Part") :
               str(w.ev[p].x) = str(LastBefore("First", p)) \o "/Part"
        /\ \A p \in Identified("Inner") :
               str(w.ev[p].x) = str(LastBefore("Second", p)) \o "/Inner"

\* <datasetBase>/data/<resource short id>
Fallback(name) == URIRef(str(Get(w.spec.globals, "$datasetBase")) \o "/data/" \o name)

\* C18: a resource with no parent resource whose identifier pattern is
\* <parent> gets the fallback identifier, whatever was processed before it,
\* and so does a resource whose pattern is <row> when there is no row ordinal.
\* In the order document the one-off Root and the resource template Second
\* have the pattern <parent> and the one-off Rowless has the pattern <row>.
NoParentFallback ==
    input = "order" =>
        \A name \in {"Root", "Second", "Rowless"} :
            \A p \in Identified(name) : w.ev[p].x = Fallback(name)

\* C19: a newly created run, a new TemplateProcessor with its root state,
\* starts with an empty reconciliation cache, an empty preserved-graph set and
\* an empty backlink table, whatever earlier runs in the process recorded
RunStartsEmpty ==
    [][tp' # tp =>
          /\ w'.reconcile[tp'.state.reconcile_stack] = EmptyDict
          /\ w'.preserved[tp'.state.preserved_graphs] = {}
          /\ w'.backlinks[tp'.state.backlinks] = EmptyDict]_vars

Ex(local) == URIRef("http://example.com/" \o local)

\* the graph each resource of the scope document belongs in, by the letter
\* its identifier starts with: the graph of the template that produced it,
\* else the graph of the template it is nested in or embedded from, else the
\* default graph
ScopeGraph(letter) ==
    CASE letter \in {"x", "i"} -> "http://example.com/g"
      [] letter = "y" -> "http://example.com/h"
      [] OTHER -> DEFAULT_GRAPH

\* the graph the templates of the graph document declare, by the predicate
\* each of them writes
DeclaredGraph(pred) ==
    CASE pred = URIRef("http://www.w3.org/2000/01/rdf-schema#label") -> "http://example.com/base"
      [] pred = Ex("value") -> "http://example.com/current"
      [] OTHER -> DEFAULT_GRAPH

\* C20: every statement is in the graph that was active when it was emitted:
\* the graph a template declares holds the statements of that application and
\* of a template embedded from it, a nested template with a graph of its own
\* writes there and the enclosing template goes on in its own graph, and the
\* templates after it, in the same record and in later records, write to the
\* default graph again
GraphScoped ==
    /\ input = "scope" =>
           \A q \in quads : q[1] = ScopeGraph(SubSeq(q[2].v, 20, 20))
    /\ input = "graph" =>
           \A q \in quads : q[1] = DeclaredGraph(q[3])

\* two records of the scope document: each has statements in the declared
\* graph before and after the nested template, in the nested template's graph,
\* and in the default graph from the template after; the second has an
\* embedded resource in the declared graph
GraphScopedWitness ==
    /\ input = "scope" /\ Len(rowlog) = 2
    /\ rowlog[1].data["id"] = Str("2") /\ rowlog[2].data["id"] = Str("1")
    /\ \A id \in {"1", "2"} :
           /\ <<"http://example.com/g", Ex("x" \o id), Ex("first"), Literal("x", "", "")>> \in quads
           /\ <<"http://example.com/h", Ex("y" \o id), Ex("note"), Literal("y", "", "")>> \in quads
           /\ <<"http://example.com/g", Ex("x" \o id), Ex("note"), Literal("x", "", "")>> \in quads
           /\ <<DEFAULT_GRAPH, Ex("z" \o id), Ex("note"), Literal("z", "", "")>> \in quads
           /\ <<DEFAULT_GRAPH, Ex("b" \o id), Ex("note"), Literal("b", "", "")>> \in quads
    /\ <<"http://example.com/g", Ex("i2"), Ex("note"), Literal("i", "", "")>> \in quads

\* the statements of the output with the predicate ex:pred that have x as
\* subject (place 2) or as object (place 4)
With(pred, place, x) == {q \in About(pred) : q[place] = x}

\* C21: for a key prefixed ^ every statement has the resource as object and
\* the value as subject, for a single value and for each value of a list;
\* for a key without the prefix the resource is the subject; a ^ key that
\* names a property spec finds it and is written the same way
InverseStatements ==
    input = "inverse" =>
        LET items == {Ex(rowlog[i].data["id"].v) : i \in 1..Len(rowlog)}
        IN  /\ \A pred \in {"fwd", "fwds"} : \A q \in About(pred) : q[2] \in items
            /\ \A pred \in {"inv", "invs", "member"} : \A q \in About(pred) :
                   q[4] \in items /\ q[2] \notin items
            /\ \A x \in items :
                   /\ With("fwd", 2, x) # {} /\ With("inv", 4, x) # {}
                   /\ With("member", 4, x) # {}
            /\ \A i \in 1..Len(rowlog) :
                   Truthy(Given(rowlog[i].data, "tags")) =>
                       /\ With("fwds", 2, Ex(rowlog[i].data["id"].v)) # {}
                       /\ With("invs", 4, Ex(rowlog[i].data["id"].v)) # {}

\* C22: in a template that mixes text with references, a reference whose
\* value is empty or absent stays in the result as its {...} text, the rest
\* is expanded and nothing is raised; a template that is one reference whose
\* value is empty or absent fails.  In the pattern document <ex:mixed> is
\* "a-{x}-b{id}" and <ex:whole> is "{x}".
MixedKeepsReference ==
    input = "pattern" =>
        \A i \in 1..Len(rowlog) :
            LET id == rowlog[i].data["id"].v
                x  == Given(rowlog[i].data, "x")
            IN  /\ ~SkippedProperty(i, "<ex:mixed>")
                /\ <<DEFAULT_GRAPH, Ex(id), Ex("mixed"),
                     Literal("a-" \o (IF Truthy(x) THEN x.v ELSE "{x}") \o "-b" \o id, "", "")>>
                       \in quads
                /\ SkippedProperty(i, "<ex:whole>") <=> ~Truthy(x)

\* the identifier the template called name got in record i
IdOf(name, i) == {w.ev[p].x : p \in Identified(name) \cap RowEvents(i)}

\* C23: the digest of <hash(a, b)> depends on the resolved arguments only:
\* two records with equal a and b get the same identifier, and whenever a and
\* b differ the digest of (a, b), the identifier, differs from the digest of
\* (b, a), the value of <ex:rev>
HashOfSequence ==
    input = "hash" =>
        /\ \A i, j \in 1..Len(rowlog) :
               rowlog[i].data = rowlog[j].data => IdOf("Item", i) = IdOf("Item", j)
        /\ \A i \in 1..Len(rowlog) :
               /\ Cardinality(IdOf("Item", i)) = 1
               /\ \A x \in IdOf("Item", i) :
                      /\ With("rev", 2, x) # {}
                      /\ rowlog[i].data["a"] # rowlog[i].data["b"] =>
                             \A q \in With("rev", 2, x) : q[4] # x

ReconcileCache == w.reconcile[tp.state.reconcile_stack]

\* the lookups that record i sent
Lookups(i) == Logged("lookup") \cap RowEvents(i)

\* no reconcile has succeeded up to the end of record i
NoneReconciled(i) == \A j \in 1..i : Logged("reconciled") \cap RowEvents(j) = {}

\* C24: a reconcile that fails leaves the cache as it was, so the cache holds
\* a key only for a reconcile that succeeded.  With no endpoint it fails and
\* sends no lookup; with skip_placeholders and no match it fails and makes no
\* placeholder; an answer that does not have exactly one result for the one
\* query fails (and fails the resource, not being a ValueError).  While none
\* has succeeded, every reconcile with an endpoint sends its lookup again.
ReconcileFailure ==
    input = "lookup" =>
        /\ DOMAIN ReconcileCache =
               {lookup_key(w.ev[p].a, Str(w.ev[p].b)) : p \in Logged("reconciled")}
        /\ \A p \in Logged("lookup") : w.ev[p].b = "http://example.com/T"
        /\ Identified("skip") = {} /\ Identified("again") = {} /\ Identified("noapi") = {}
        /\ \A i \in 1..Len(rowlog) :
               /\ About("noapi") = {}
               /\ NoneReconciled(i - 1) => SkippedProperty(i, "<ex:noapi>")
               /\ (NoneReconciled(i - 1) /\ rowlog[i].answer \in {"possible", "error"}) =>
                      /\ NoneReconciled(i)
                      /\ SkippedProperty(i, "<ex:skip>") /\ SkippedProperty(i, "<ex:again>")
                      /\ Cardinality(Lookups(i)) = 2
                      /\ ~rowlog[i].failed
               /\ (NoneReconciled(i - 1) /\ rowlog[i].answer \in {"none", "extra"}) =>
                      /\ NoneReconciled(i)
                      /\ Cardinality(Lookups(i)) = 1
                      /\ rowlog[i].failed
               /\ (NoneReconciled(i - 1) /\ rowlog[i].answer = "match1") =>
                      /\ Cardinality(Lookups(i)) = 1
                      /\ ~NoneReconciled(i)

\* two records with the same key: no match the first time, with placeholders
\* switched off, and an answer without a result the second time; three lookups
\* in all and nothing in the cache
ReconcileFailureWitness ==
    /\ input = "lookup" /\ Len(rowlog) = 2
    /\ rowlog[1].answer = "possible" /\ rowlog[2].answer = "none"
    /\ Cardinality(Logged("lookup")) = 3
    /\ SkippedProperty(1, "<ex:skip>") /\ SkippedProperty(1, "<ex:noapi>")
    /\ rowlog[2].failed
    /\ ReconcileCache = EmptyDict

\* the statement of <ex:vals> that record i makes from the value v
Val(i, v) == <<DEFAULT_GRAPH, Ex(rowlog[i].data["id"].v), Ex("vals"), v>>

\* the elements of the list of <ex:vals> that record i has a value for, as
\* the statements they make
ListValues(i) ==
    LET d == rowlog[i].data
    IN  (IF Truthy(Given(d, "a")) THEN {Val(i, Literal(d["a"].v, "", ""))} ELSE {})
        \cup (IF Truthy(Given(d, "b")) THEN {Val(i, Literal(d["b"].v, "", ""))} ELSE {})
        \cup (IF Given(d, "c").t = "str" /\ AllIn(Given(d, "c").v, Digit)
              THEN {Val(i, Literal(d["c"].v, "xsd:integer", ""))} ELSE {})

\* the error of an element of the list was caught at the element
SkippedItem(i) == \E p \in RowEvents(i) : w.ev[p].e = "skip_item" /\ w.ev[p].a = "<ex:vals>"

\* C25 as written: an error of any kind in one element of a list template is
\* caught at the element; the other elements make their statements and the
\* resource is emitted
ListElementsIndependent ==
    input = "list" =>
        \A i \in 1..Len(rowlog) :
            /\ ListValues(i) \subseteq quads
            /\ Emitted(i, 1) /\ ~rowlog[i].failed

\* C25 as the code has it: a ValueError in one element is caught at the
\* element, the elements before and after it make their statements and the
\* resource is emitted; any other error ends the list and fails the resource,
\* and the elements before it have made their statements
ListElementErrors ==
    input = "list" =>
        \A i \in 1..Len(rowlog) :
            LET c == Given(rowlog[i].data, "c")
            IN  /\ c.t # "object" =>
                      /\ ListValues(i) \subseteq quads
                      /\ Emitted(i, 1) /\ ~rowlog[i].failed
                      /\ SkippedItem(i) <=> Cardinality(ListValues(i)) < 3
                      /\ ~SkippedProperty(i, "<ex:vals>")
                      /\ Val(i, Literal(rowlog[i].data["id"].v, "", "")) \notin quads
                      /\ <<DEFAULT_GRAPH, Ex(rowlog[i].data["id"].v), Ex("tail"),
                           Literal(rowlog[i].data["id"].v, "", "")>> \in quads
                /\ c.t = "object" =>
                      /\ rowlog[i].failed /\ ~Emitted(i, 1) /\ ~SkippedItem(i)
                      /\ Val(i, Literal("a", "", "")) \in quads
                      /\ Val(i, Literal("b", "", "")) \notin quads
                      /\ With("tail", 2, Ex(rowlog[i].data["id"].v)) = {}

\* a record whose first and middle elements raise a ValueError and whose last
\* element is emitted, then a record whose middle element raises a TypeError
\* after the first was emitted
ListElementErrorsWitness ==
    /\ input = "list" /\ Len(rowlog) = 2
    /\ rowlog[1].data["id"] = Str("3") /\ rowlog[2].data["id"] = Str("4")
    /\ SkippedItem(1) /\ Emitted(1, 1)
    /\ Val(1, Literal("b", "", "")) \in quads
    /\ Cardinality(With("vals", 2, Ex("3"))) = 1
    /\ rowlog[2].failed
    /\ Cardinality(With("vals", 2, Ex("4"))) = 1

\* the position of the resource that a back-reference to name at position p
\* of the log yields: the last one of that name before p
Yielding(name, p) ==
    CHOOSE q \in Identified(name) : q < p /\ \A r \in Identified(name) : r < p => r <= q

\* the positions of the log that belong to one of the records before record i
Earlier(i) == UNION {RowEvents(j) : j \in 1..(i - 1)}

\* C26: a back-reference evaluated while a record is processed never yields a
\* resource that was generated while an earlier record was processed
BacklinksOfThisRow ==
    \A i \in 1..Len(rowlog) :
        \A p \in RowEvents(i) :
            (w.ev[p].e = "backref" /\ w.ev[p].x # NoneV)
                => Yielding(w.ev[p].a, p) \notin Earlier(i)

\* the concepts created for the vocabulary cv and the label, as identifiers
ConceptsOf(cv, label, p) ==
    {w.ev[q].x.v : q \in {r \in Logged("cv_concept") :
                            r < p /\ w.ev[r].a = cv /\ w.ev[r].b = label}}

\* C27: the keys of resource names, of vocabulary entries and of the guards of
\* declarations never collide: what autoCV gets from the table for a
\* vocabulary and a label is the concept created for that vocabulary and that
\* label, never a resource recorded under its name nor the concept of
\* another vocabulary or label
KeysDisjoint ==
    \A p \in Logged("cv_ret") : w.ev[p].x.v \in ConceptsOf(w.ev[p].a, w.ev[p].b, p)

\* the applications of per-record templates that were not ended by a filter,
\* as positions of the log
Unfiltered ==
    {p \in Logged("apply") :
        /\ w.ev[p].b = "resource"
        /\ ~(p < Len(w.ev) /\ w.ev[p + 1].e = "skipped")}

\* the graphs that an application so far has selected with the preserve flag
\* set; the graph templates of the documents are constant references
SelectedPreserved ==
    {expand_curi(SubSeq(w.spec.resources[w.ev[p].x.v].graph.v, 2,
                        Len(w.spec.resources[w.ev[p].x.v].graph.v) - 1),
                 w.spec.namespaces) :
        p \in {q \in Unfiltered :
                 /\ Truthy(w.spec.resources[w.ev[q].x.v].graph)
                 /\ preserved_graph_of(w.spec.resources[w.ev[q].x.v])}}

\* C28: the preserved-graph set holds exactly the graphs that an application
\* of the run so far has selected with the preserve flag set, so it only
\* grows, whatever was selected without the flag afterwards; update and
\* delete write no drop instruction for a graph of the set
PreservedGrows ==
    /\ Preserved = SelectedPreserved
    /\ (phase = "done" /\ result.val /\ result.fmt \in {"update", "delete"}) =>
           \A g \in Preserved : Lines("DROP", g) = {}

\* a record in which Keep writes to the shared graph with the flag and Loose
\* without it, then a record in which Loose alone writes to it; the update
\* inserts the statements of both templates into the graph and does not
\* drop it
PreservedGrowsWitness ==
    /\ input = "preserve" /\ Len(rowlog) = 2
    /\ rowlog[1].data["id"] = Str("1") /\ rowlog[2].data["id"] = Str("4")
    /\ phase = "done" /\ result.fmt = "update" /\ result.val
    /\ Preserved = {"http://example.com/shared"}
    /\ Lines("DROP", "http://example.com/shared") = {}
    /\ \E p \in Lines("INSERT", "http://example.com/shared") :
           {Ex("k1"), Ex("l1"), Ex("l4")} \subseteq {q[1] : q \in tp.output[p].data}

\* the names of the templates that the record the step adds applied and a
\* filter ended, and of those it applied and no filter ended
NewEvents == (Len(w.ev) + 1)..Len(w'.ev)

SkippedNow == {w'.ev[p].a : p \in {q \in NewEvents : w'.ev[q].e = "skipped"}}

RanNow == {w'.ev[p].a : p \in {q \in NewEvents : w'.ev[q].e = "apply"}} \ SkippedNow

\* the template of the preserve document that makes the statements about x
Maker(x) ==
    CASE StartsWith(x.v, "http://example.com/k") -> "Keep"
      [] StartsWith(x.v, "http://example.com/b") -> "Broken"
      [] StartsWith(x.v, "http://example.com/l") -> "Loose"
      [] OTHER -> "Tail"

\* the graph a template of the preserve document selects with the flag set
FlagGraph(name) ==
    CASE name = "Keep" -> {"http://example.com/shared"}
      [] name = "Broken" -> {"http://example.com/broken"}
      [] OTHER -> {}

\* C29: an application that its filter ends adds no statement to any graph,
\* leaves the backlink of its name as it was, adds no other entry to the
\* table, adds nothing to the preserved-graph set and does not raise the
\* error count: what a record changes is what its other applications change
SkippedFrame ==
    [][(input = "preserve" /\ rowlog' # rowlog) =>
          /\ \A q \in w'.datasets[tp'.dataset].quads \ quads : Maker(q[2]) \in RanNow
          /\ \A n \in SkippedNow :
                 Get(w'.backlinks[tp'.state.backlinks], n)
                     = Get(w.backlinks[tp.state.backlinks], n)
          /\ (DOMAIN w'.backlinks[tp'.state.backlinks])
                 \ (DOMAIN w.backlinks[tp.state.backlinks]) \subseteq RanNow
          /\ w'.preserved[tp'.state.preserved_graphs] \ Preserved
                 \subseteq UNION {FlagGraph(n) : n \in RanNow}
          /\ tp'.error_count = tp.error_count
                 + (IF rowlog'[Len(rowlog')].data["id"] = Str("3") THEN 1 ELSE 0)
          /\ SkippedNow \cup RanNow = {"Keep", "Broken", "Loose", "Tail"}]_vars

\* a first record for which the filters end Keep and Broken: Loose writes to
\* the shared graph, which is not preserved, and no error is counted
SkippedFrameWitness ==
    /\ input = "preserve" /\ Len(rowlog) = 1
    /\ rowlog[1].data["id"] = Str("4")
    /\ {w.ev[p].a : p \in Logged("skipped")} = {"Keep", "Broken"}
    /\ Preserved = {}
    /\ statements(w, tp, "http://example.com/shared") # {}
    /\ DOMAIN w.backlinks[tp.state.backlinks] = {"Loose", "Tail"}
    /\ tp.error_count = 0

\* what the record the step adds logged about the template of that name
Now(kind, name) == {p \in NewEvents : w'.ev[p].e = kind /\ w'.ev[p].a = name}

\* C30: an application whose @id pattern cannot be expanded makes no
\* statement and records no backlink, so the backlink of its name keeps the
\* value it had; the failure adds one to the error count, and the templates
\* after it are applied to the record
IdentityFailure ==
    [][(/\ input = "preserve" /\ rowlog' # rowlog
        /\ rowlog'[Len(rowlog')].data["id"] = Str("3")) =>
          /\ Now("apply", "Broken") # {}
          /\ Now("skipped", "Broken") = {} /\ Now("resource", "Broken") = {}
          /\ \A q \in w'.datasets[tp'.dataset].quads \ quads : Maker(q[2]) # "Broken"
          /\ Get(w'.backlinks[tp'.state.backlinks], "Broken")
                 = Get(w.backlinks[tp.state.backlinks], "Broken")
          /\ tp'.error_count = tp.error_count + 1
          /\ Now("emitted", "Loose") # {} /\ Now("emitted", "Tail") # {}
          /\ \A a \in Now("apply", "Broken"), e \in Now("emitted", "Loose") : a < e
          /\ {q[4] : q \in {x \in w'.datasets[tp'.dataset].quads :
                               x[2] = Ex("t3") /\ x[3] = Ex("broken")}}
                 = {q[4] : q \in {x \in quads : x[2] = Ex("t3") /\ x[3] = Ex("broken")}}
                       \cup ({Get(w.backlinks[tp.state.backlinks], "Broken")} \ {NoneV})]_vars

\* Broken succeeds for a first record and fails at its identifier for the
\* second: the backlink is still the resource of the first record, which the
\* back-reference of Tail in the second record yields, and one error is
\* counted
IdentityFailureWitness ==
    /\ input = "preserve" /\ Len(rowlog) = 2
    /\ rowlog[1].data["id"] = Str("2") /\ rowlog[2].data["id"] = Str("3")
    /\ ~rowlog[1].failed /\ rowlog[2].failed
    /\ tp.error_count = 1
    /\ Get(w.backlinks[tp.state.backlinks], "Broken") = Ex("bm")
    /\ <<"urn:x-rdflib:default", Ex("t3"), Ex("broken"), Ex("bm")>> \in quads
    /\ <<"http://example.com/shared", Ex("l3"), Ex("v"), Literal("y", "", "")>> \in quads
    /\ {q \in quads : Maker(q[2]) = "Broken"} = Of(Ex("bm"))

====
